---------------------------- MODULE Spec2Model ----------------------------
(***************************************************************************)
(* A model of the MTG deck analyzer: the Manabox line parser               *)
(* (services/scryfallService.js), the relevance scorer and filter          *)
(* (services/collectionFilter.js) and the App state that feeds them        *)
(* (App.jsx, AIAnalyzer.jsx, CollectionManager.jsx, ManaboxImporter.jsx).  *)
(*                                                                         *)
(* JavaScript strings are TLA+ strings, read character by character with   *)
(* SubSeq; JavaScript objects are records whose DOMAIN is the set of       *)
(* fields that are present; arrays are sequences.                          *)
(***************************************************************************)
EXTENDS Integers, Sequences, FiniteSets, TLC

VARIABLES
    pText,      \* parser: the text handed to parseTXT
    pDeck,      \* parser: the structure parseTXT returned
    pDone,      \* parser: TRUE once parseTXT has returned
    fCollection,\* scorer: the collection argument of filterCollectionByNeeds
    fNeeds,     \* scorer: the needs argument
    fDeckCards, \* scorer: the deckCards argument
    fResult,    \* scorer: the array filterCollectionByNeeds returned
    fOrder,     \* scorer: for each returned card, its index in fCollection
    fDone,      \* scorer: TRUE once filterCollectionByNeeds has returned
    fError,     \* scorer: TRUE when the call ended in a TypeError instead
    heap,       \* app: the card objects of the page, by object identity
    decks,      \* app: the decks state; a deck's cards are references into heap
    currentDeck,\* app: the currentDeck state, <<>> for null
    collection, \* app: the collection state, references into heap
    lastAction, \* app: the lastAction state, <<>> for null
    storage,    \* app: localStorage, the parsed JSON under each key
    now,        \* app: the clock Date.now() reads
    analysis,   \* app: what the last analyzeWithAI computed, <<>> for none
    iText,      \* importer: the text handed to processImport
    iParsed,    \* importer: parsedDeck, what parse returned
    iResults,   \* importer: scryfallResults, what the lookup returned
    iMerged,    \* importer: result.deck, <<>> for none
    iImported,  \* importer: what was handed to onImport, <<>> for none
    iStage      \* importer: "start", "failed", "result" or "imported"

parserVars == <<pText, pDeck, pDone>>
filterVars == <<fCollection, fNeeds, fDeckCards, fResult, fOrder, fDone, fError>>
appVars == <<heap, decks, currentDeck, collection, lastAction, storage, now, analysis>>

importVars == <<iText, iParsed, iResults, iMerged, iImported, iStage>>

vars == <<parserVars, filterVars, appVars, importVars>>

-----------------------------------------------------------------------------
(* Strings *)

\* null / undefined of a string-valued field
Null == "null"

CharAt(s, i) == SubSeq(s, i, i)

Min(S) == CHOOSE x \in S : \A y \in S : x <= y
Max(S) == CHOOSE x \in S : \A y \in S : x >= y

UpperAlpha == "ABCDEFGHIJKLMNOPQRSTUVWXYZ"
LowerAlpha == "abcdefghijklmnopqrstuvwxyz"
DigitChars == "0123456789"

DigitSet == {CharAt(DigitChars, i) : i \in 1..Len(DigitChars)}
UpperSet == {CharAt(UpperAlpha, i) : i \in 1..Len(UpperAlpha)}
LowerOf ==
    [c \in UpperSet |->
        CharAt(LowerAlpha, CHOOSE i \in 1..Len(UpperAlpha) : CharAt(UpperAlpha, i) = c)]
DigitValueOf ==
    [c \in DigitSet |-> (CHOOSE i \in 1..Len(DigitChars) : CharAt(DigitChars, i) = c) - 1]

IsDigit(c) == c \in DigitSet
IsUpper(c) == c \in UpperSet
\* \s of a regular expression and the characters String.prototype.trim strips
IsSpace(c) == c \in {" ", "\t", "\n", "\r"}
\* the characters "." does not match
IsLineTerminator(c) == c \in {"\n", "\r"}

LowerChar(c) == IF IsUpper(c) THEN LowerOf[c] ELSE c

\* s.toLowerCase(), character by character (the string is halved to keep
\* the recursion shallow)
RECURSIVE toLowerCase(_)
toLowerCase(s) ==
    IF Len(s) = 0 THEN ""
    ELSE IF Len(s) = 1 THEN LowerChar(s)
    ELSE toLowerCase(SubSeq(s, 1, Len(s) \div 2))
            \o toLowerCase(SubSeq(s, Len(s) \div 2 + 1, Len(s)))

\* s.startsWith(p)
startsWith(s, p) == Len(s) >= Len(p) /\ SubSeq(s, 1, Len(p)) = p

\* s.includes(t)
includes(s, t) ==
    \E i \in 1..(Len(s) - Len(t) + 1) : SubSeq(s, i, i + Len(t) - 1) = t

\* s.trim()
trim(s) ==
    LET keep == {i \in 1..Len(s) : ~IsSpace(CharAt(s, i))}
    IN  IF keep = {} THEN "" ELSE SubSeq(s, Min(keep), Max(keep))

\* text.split('\n')
RECURSIVE split(_)
split(s) ==
    LET nl == {i \in 1..Len(s) : CharAt(s, i) = "\n"}
    IN  IF nl = {} THEN <<s>>
        ELSE <<SubSeq(s, 1, Min(nl) - 1)>> \o split(SubSeq(s, Min(nl) + 1, Len(s)))

\* the length of the longest run of characters satisfying P that starts at i
RunLen(s, i, P(_)) ==
    LET stop == {j \in i..Len(s) : ~P(CharAt(s, j))}
    IN  IF stop = {} THEN Len(s) - i + 1 ELSE Min(stop) - i

DigitValue(c) == DigitValueOf[c]

\* parseInt of a string of decimal digits
RECURSIVE parseIntDigits(_)
parseIntDigits(s) ==
    IF Len(s) = 0 THEN 0
    ELSE 10 * parseIntDigits(SubSeq(s, 1, Len(s) - 1)) + DigitValue(CharAt(s, Len(s)))

-----------------------------------------------------------------------------
(* ManaboxParser.parseCardLine *)

IsSetChar(c) == IsUpper(c) \/ IsDigit(c)
IsDot(c) == ~IsLineTerminator(c)

\* ^(\d+)x?\s+ : the position after the quantity and the optional x, 0 when
\* the line does not start with digits. \d+ and x? never give characters back:
\* what follows them must be white space.
QuantityEnd(line) ==
    LET d == RunLen(line, 1, IsDigit)
    IN  IF d = 0 THEN 0
        ELSE IF CharAt(line, d + 1) = "x" THEN d + 2 ELSE d + 1

\* \s*\(([A-Z0-9]+)\)\s*(\d+) matched at position q: every quantifier is
\* followed by a character outside its class, so the match is unique.
SetAndNumber(line, q) ==
    LET a  == q + RunLen(line, q, IsSpace)
        s  == RunLen(line, a + 1, IsSetChar)
        b  == a + 1 + s
        c  == b + 1 + RunLen(line, b + 1, IsSpace)
        n  == RunLen(line, c, IsDigit)
    IN  IF /\ a <= Len(line) /\ CharAt(line, a) = "("
           /\ s >= 1
           /\ b <= Len(line) /\ CharAt(line, b) = ")"
           /\ n >= 1
        THEN <<[set |-> SubSeq(line, a + 1, b - 1),
                collectorNumber |-> SubSeq(line, c, c + n - 1)]>>
        ELSE <<>>

\* line.match(/^(\d+)x?\s+(.+?)\s*\(([A-Z0-9]+)\)\s*(\d+)/): \s+ is greedy and
\* gives back one character at a time, (.+?) is lazy; the match returned is
\* the first in that order. <<>> is null.
fullMatch(line) ==
    LET p == QuantityEnd(line)
        w == IF p = 0 THEN 0 ELSE RunLen(line, p, IsSpace)
        cands == {kn \in (1..w) \X (1..Len(line)) :
                    /\ RunLen(line, p + kn[1], IsDot) >= kn[2]
                    /\ SetAndNumber(line, p + kn[1] + kn[2]) # <<>>}
    IN  IF cands = {} THEN <<>>
        ELSE LET k  == Max({kn[1] : kn \in cands})
                 n  == Min({kn[2] : kn \in {c \in cands : c[1] = k}})
                 sn == SetAndNumber(line, p + k + n)[1]
             IN  <<[quantity |-> SubSeq(line, 1, RunLen(line, 1, IsDigit)),
                    name |-> SubSeq(line, p + k, p + k + n - 1),
                    set |-> sn.set,
                    collectorNumber |-> sn.collectorNumber]>>

\* line.match(/^(\d+)x?\s+(.+)/)
simpleMatch(line) ==
    LET p == QuantityEnd(line)
        w == IF p = 0 THEN 0 ELSE RunLen(line, p, IsSpace)
        ks == {k \in 1..w : RunLen(line, p + k, IsDot) >= 1}
    IN  IF ks = {} THEN <<>>
        ELSE LET k == Max(ks)
             IN  <<[quantity |-> SubSeq(line, 1, RunLen(line, 1, IsDigit)),
                    name |-> SubSeq(line, p + k, p + k + RunLen(line, p + k, IsDot) - 1)]>>

\* the object parseCardLine returns for the two matches: <<>> is null,
\* <<card>> a parsed card
CardOf(full, simple) ==
    IF full # <<>>
    THEN <<[quantity |-> parseIntDigits(full[1].quantity),
            name |-> trim(full[1].name),
            set |-> full[1].set,
            collectorNumber |-> full[1].collectorNumber]>>
    ELSE IF simple # <<>>
    THEN <<[quantity |-> parseIntDigits(simple[1].quantity),
            name |-> trim(simple[1].name),
            set |-> Null,
            collectorNumber |-> Null]>>
    ELSE <<>>

parseCardLine(line) == CardOf(fullMatch(line), simpleMatch(line))

-----------------------------------------------------------------------------
(* ManaboxParser.parseTXT *)

\* The keys every object literal {} inherits from Object.prototype that a
\* lower-cased name can equal: obj[key] is then a truthy built-in object.
InheritedKeys == {"constructor", "__proto__"}

\* A plain object used as a map: the sequence of its own properties
\* [key, value] in creation order.
HasOwn(obj, key) == \E i \in 1..Len(obj) : obj[i].key = key
OwnIndex(obj, key) == CHOOSE i \in 1..Len(obj) : obj[i].key = key

\* an array index key ("0", "7", "42": canonical decimal digits)
IsIndexKey(key) ==
    /\ Len(key) >= 1
    /\ RunLen(key, 1, IsDigit) = Len(key)
    /\ (Len(key) = 1 \/ CharAt(key, 1) # "0")

RECURSIVE SortedByIndexKey(_)
SortedByIndexKey(props) ==
    IF props = <<>> THEN <<>>
    ELSE LET m == CHOOSE i \in 1..Len(props) :
                     \A j \in 1..Len(props) :
                        parseIntDigits(props[i].key) <= parseIntDigits(props[j].key)
         IN  <<props[m]>> \o
             SortedByIndexKey([j \in 1..(Len(props) - 1) |->
                                  IF j < m THEN props[j] ELSE props[j + 1]])

IsIndexProp(p) == IsIndexKey(p.key)
IsNameProp(p) == ~IsIndexKey(p.key)

ValuesOf(props) == [i \in 1..Len(props) |-> props[i].value]

\* Object.values(obj): array-index keys in ascending order, then the other
\* keys in creation order
ObjectValues(obj) ==
    ValuesOf(SortedByIndexKey(SelectSeq(obj, IsIndexProp)) \o SelectSeq(obj, IsNameProp))

IsNonEmpty(line) == Len(line) > 0

\* lines 373: split, trim, drop the empty lines
TxtLines(text) ==
    LET raw == split(text)
    IN  SelectSeq([i \in 1..Len(raw) |-> trim(raw[i])], IsNonEmpty)

\* line.substring(2).trim().toLowerCase() === 'commander' ? 'commander' : 'main'
SectionOf(line) ==
    IF toLowerCase(trim(SubSeq(line, 3, Len(line)))) = "commander"
    THEN "commander" ELSE "main"

\* mutant: every parsed line becomes an entry of its own, nothing is merged
StoreCardNoMerge(st, nameLower, parsed) ==
    [st EXCEPT ![st.section] = Append(@, [key |-> nameLower, value |-> parsed])]

\* lines 399-403 on the loop state st = [section, commander, main, errors]:
\* the name is an own key of cardsByName[section], an inherited key, or new
StoreCard(st, nameLower, parsed) ==
    IF HasOwn(st[st.section], nameLower)
    THEN [st EXCEPT ![st.section][OwnIndex(st[st.section], nameLower)].value.quantity =
                        @ + parsed.quantity]
    ELSE IF nameLower \in InheritedKeys
    \* cardsByName[section][nameLower] is Object or Object.prototype: the +=
    \* lands on that built-in
    THEN st
    ELSE [st EXCEPT ![st.section] = Append(@, [key |-> nameLower, value |-> parsed])]

\* lines 394-406: what the loop does with the result of parseCardLine
TakeParsed(st, line, parsed) ==
    IF parsed # <<>>
    THEN StoreCard(st, toLowerCase(parsed[1].name), parsed[1])
    ELSE [st EXCEPT !.errors =
             Append(@, [line |-> line, reason |-> "Could not parse format"])]

\* one iteration of the loop of lines 385-407
ParseLineStep(st, line) ==
    IF startsWith(line, "//")
    THEN [st EXCEPT !.section = SectionOf(line)]
    ELSE TakeParsed(st, line, parseCardLine(line))

RECURSIVE ParseLines(_, _)
ParseLines(st, lines) ==
    IF lines = <<>> THEN st
    ELSE ParseLines(ParseLineStep(st, Head(lines)), Tail(lines))

\* lines 409-414: the deck returned for the final loop state
DeckOf(st) ==
    [commander |-> ObjectValues(st.commander),
     cards |-> ObjectValues(st.main),
     errors |-> st.errors]

parseTXT(text) ==
    DeckOf(ParseLines([section |-> "main", commander |-> <<>>, main |-> <<>>,
                       errors |-> <<>>], TxtLines(text)))

-----------------------------------------------------------------------------
(* The parser as a state machine: a text is chosen, parseTXT is applied *)

MaxLines == 3

LinePool ==
    { "2 Sol Ring (C21) 263",
      "2 Sol Ring (LTC) 301",
      "1x sol ring",
      "// Commander",
      "// Sideboard",
      "Sol Ring",
      "1 constructor",
      "0 Opt",
      " 3 Opt \r",
      "" }

RECURSIVE JoinLines(_)
JoinLines(ls) ==
    IF Len(ls) = 0 THEN ""
    ELSE IF Len(ls) = 1 THEN ls[1]
    ELSE ls[1] \o "\n" \o JoinLines(Tail(ls))

Texts == UNION { {JoinLines(ls) : ls \in [1..n -> LinePool]} : n \in 1..MaxLines }

NoDeck == [commander |-> <<>>, cards |-> <<>>, errors |-> <<>>]

ParserIdle == pText = "" /\ pDeck = NoDeck /\ pDone = TRUE
FilterIdle ==
    /\ fCollection = <<>> /\ fNeeds = <<>> /\ fDeckCards = <<>>
    /\ fResult = <<>> /\ fOrder = <<>> /\ fDone = TRUE /\ fError = FALSE

\* a fresh installation: nothing in the page, nothing in localStorage
EmptyStorage ==
    [mtg_decks |-> <<>>, mtg_collection |-> <<>>,
     mtg_collection_backup |-> <<>>, mtg_collection_backup_old |-> <<>>]
AppIdle ==
    /\ heap = <<>> /\ decks = <<>> /\ currentDeck = <<>> /\ collection = <<>>
    /\ lastAction = <<>> /\ storage = EmptyStorage /\ now = 0 /\ analysis = <<>>

\* the importer dialog is closed
ImportIdle ==
    /\ iText = "" /\ iParsed = NoDeck /\ iResults = [found |-> <<>>, notFound |-> <<>>]
    /\ iMerged = <<>> /\ iImported = <<>> /\ iStage = "imported"

InitParser ==
    /\ pText \in Texts
    /\ pDeck = NoDeck
    /\ pDone = FALSE
    /\ FilterIdle
    /\ AppIdle
    /\ ImportIdle

ParseTXT ==
    /\ ~pDone
    /\ pDeck' = parseTXT(pText)
    /\ pDone' = TRUE
    /\ UNCHANGED <<pText, filterVars, appVars, importVars>>

NextParser == ParseTXT

SpecParser == InitParser /\ [][NextParser]_vars

-----------------------------------------------------------------------------
(* JavaScript objects and values *)

\* obj.field is present
Has(obj, field) == field \in DOMAIN obj

\* (obj.field || '') for a string field
StringOrEmpty(obj, field) ==
    IF Has(obj, field) /\ obj[field] # Null THEN obj[field] ELSE ""

\* (obj.field || []) for an array field
ArrayOrEmpty(obj, field) == IF Has(obj, field) THEN obj[field] ELSE <<>>

\* (obj.field || 0) for a number field
NumberOrZero(obj, field) == IF Has(obj, field) THEN obj[field] ELSE 0

\* mutant: a flag counts as set unless it is present and false
TruthyUnlessFalse(obj, field) == ~Has(obj, field) \/ obj[field] = TRUE

\* a flag that is present and true
Truthy(obj, field) == Has(obj, field) /\ obj[field] = TRUE

\* array.includes(x)
arrayIncludes(arr, x) == \E i \in 1..Len(arr) : arr[i] = x

\* terms.some(term => s.includes(term))
someIncluded(terms, s) == \E i \in 1..Len(terms) : includes(s, terms[i])

\* the number of elements of arr that satisfy P
CountWhere(arr, P(_)) == Cardinality({i \in 1..Len(arr) : P(arr[i])})

\* parseInt(s): optional white space, an optional sign, then decimal digits;
\* whatever follows the digits is ignored. <<>> is NaN.
parseInt(s) ==
    LET a == 1 + RunLen(s, 1, IsSpace)
        signed == a <= Len(s) /\ CharAt(s, a) \in {"+", "-"}
        b == IF signed THEN a + 1 ELSE a
        n == RunLen(s, b, IsDigit)
        v == parseIntDigits(SubSeq(s, b, b + n - 1))
    IN  IF n = 0 THEN <<>>
        ELSE IF signed /\ CharAt(s, a) = "-" THEN <<0 - v>> ELSE <<v>>

\* { ...obj, field: value }
With(obj, field, value) ==
    [f \in DOMAIN obj \cup {field} |-> IF f = field THEN value ELSE obj[f]]

-----------------------------------------------------------------------------
(* collectionFilter.js: scoreCard *)

removalTerms == <<"destroy target", "exile target", "return target", "-x/-x",
                  "deals damage to target">>
rampTerms    == <<"add {", "search your library for a", "land", "mana", "tap: add">>
drawTerms    == <<"draw a card", "draw two", "draw three", "draw cards", "draws a card">>
wipeTerms    == <<"destroy all", "exile all", "each creature gets", "all creatures">>
protectTerms == <<"hexproof", "indestructible", "protection from", "shroud", "regenerate">>
graveTerms   == <<"graveyard", "return from", "from your graveyard", "dies", "when ~ dies">>

\* mutant: a term in the name and in the oracle text counts twice
SynergyScoreNameAndText(card, needs) ==
    LET nameLower == toLowerCase(StringOrEmpty(card, "name"))
        oracleLower == toLowerCase(StringOrEmpty(card, "oracleText"))
    IN  15 * CountWhere(ArrayOrEmpty(needs, "synergyOracleTerms"),
                LAMBDA term : includes(oracleLower, toLowerCase(term)))
      + 15 * CountWhere(ArrayOrEmpty(needs, "synergyOracleTerms"),
                LAMBDA term : includes(nameLower, toLowerCase(term)))

SynergyScore(card, needs) ==
    LET nameLower == toLowerCase(StringOrEmpty(card, "name"))
        oracleLower == toLowerCase(StringOrEmpty(card, "oracleText"))
    IN  15 * CountWhere(ArrayOrEmpty(needs, "synergyOracleTerms"),
                LAMBDA term : \/ includes(oracleLower, toLowerCase(term))
                              \/ includes(nameLower, toLowerCase(term)))

KeywordScore(card, needs) ==
    LET keywords == ArrayOrEmpty(card, "keywords")
        keywordsLower == [i \in 1..Len(keywords) |-> toLowerCase(keywords[i])]
    IN  10 * CountWhere(ArrayOrEmpty(needs, "wantedKeywords"),
                LAMBDA keyword : arrayIncludes(keywordsLower, toLowerCase(keyword)))

CreatureTypeScore(card, needs) ==
    LET typeLower == toLowerCase(StringOrEmpty(card, "type"))
    IN  12 * CountWhere(ArrayOrEmpty(needs, "wantedCreatureTypes"),
                LAMBDA type : includes(typeLower, toLowerCase(type)))

OracleTermScore(card, needs) ==
    LET oracleLower == toLowerCase(StringOrEmpty(card, "oracleText"))
    IN  8 * CountWhere(ArrayOrEmpty(needs, "additionalOracleTerms"),
                LAMBDA term : includes(oracleLower, toLowerCase(term)))

\* mutant: card draw adds 12 for each of its phrases that occurs
RoleScorePerPhrase(card, needs) ==
    LET oracleLower == toLowerCase(StringOrEmpty(card, "oracleText"))
        typeLower == toLowerCase(StringOrEmpty(card, "type"))
        keywords == ArrayOrEmpty(card, "keywords")
        keywordsLower == [i \in 1..Len(keywords) |-> toLowerCase(keywords[i])]
        isLandOrRamp ==
            /\ someIncluded(rampTerms, oracleLower)
            /\ \/ includes(typeLower, "artifact")
               \/ includes(typeLower, "creature")
               \/ includes(typeLower, "enchantment")
    IN    (IF Truthy(needs, "needsRemoval") /\ someIncluded(removalTerms, oracleLower)
           THEN 12 ELSE 0)
        + (IF Truthy(needs, "needsRamp") /\ isLandOrRamp THEN 10 ELSE 0)
        + (IF /\ Truthy(needs, "needsRamp")
              /\ includes(typeLower, "artifact")
              /\ includes(oracleLower, "{t}: add")
           THEN 12 ELSE 0)
        + (IF Truthy(needs, "needsCardDraw")
           THEN 12 * CountWhere(drawTerms, LAMBDA term : includes(oracleLower, term))
           ELSE 0)
        + (IF Truthy(needs, "needsBoardWipes") /\ someIncluded(wipeTerms, oracleLower)
           THEN 15 ELSE 0)
        + (IF /\ Truthy(needs, "needsCounterspells")
              /\ \/ includes(oracleLower, "counter target spell")
                 \/ includes(oracleLower, "counter target creature")
           THEN 15 ELSE 0)
        + (IF /\ Truthy(needs, "needsProtection")
              /\ \E i \in 1..Len(protectTerms) :
                    \/ includes(oracleLower, protectTerms[i])
                    \/ arrayIncludes(keywordsLower, protectTerms[i])
           THEN 10 ELSE 0)
        + (IF Truthy(needs, "needsGraveyard") /\ someIncluded(graveTerms, oracleLower)
           THEN 10 ELSE 0)
        + (IF /\ Truthy(needs, "needsTokens")
              /\ includes(oracleLower, "create")
              /\ includes(oracleLower, "token")
           THEN 12 ELSE 0)
        + (IF /\ Truthy(needs, "needsTutor")
              /\ includes(oracleLower, "search your library")
              /\ includes(oracleLower, "put it into your hand")
           THEN 15 ELSE 0)
        + (IF /\ Truthy(needs, "needsLandFetch")
              /\ includes(oracleLower, "search your library for a")
              /\ includes(oracleLower, "land")
           THEN 12 ELSE 0)

RoleScore(card, needs) ==
    LET oracleLower == toLowerCase(StringOrEmpty(card, "oracleText"))
        typeLower == toLowerCase(StringOrEmpty(card, "type"))
        keywords == ArrayOrEmpty(card, "keywords")
        keywordsLower == [i \in 1..Len(keywords) |-> toLowerCase(keywords[i])]
        isLandOrRamp ==
            /\ someIncluded(rampTerms, oracleLower)
            /\ \/ includes(typeLower, "artifact")
               \/ includes(typeLower, "creature")
               \/ includes(typeLower, "enchantment")
    IN    (IF Truthy(needs, "needsRemoval") /\ someIncluded(removalTerms, oracleLower)
           THEN 12 ELSE 0)
        + (IF Truthy(needs, "needsRamp") /\ isLandOrRamp THEN 10 ELSE 0)
        + (IF /\ Truthy(needs, "needsRamp")
              /\ includes(typeLower, "artifact")
              /\ includes(oracleLower, "{t}: add")
           THEN 12 ELSE 0)
        + (IF Truthy(needs, "needsCardDraw") /\ someIncluded(drawTerms, oracleLower)
           THEN 12 ELSE 0)
        + (IF Truthy(needs, "needsBoardWipes") /\ someIncluded(wipeTerms, oracleLower)
           THEN 15 ELSE 0)
        + (IF /\ Truthy(needs, "needsCounterspells")
              /\ \/ includes(oracleLower, "counter target spell")
                 \/ includes(oracleLower, "counter target creature")
           THEN 15 ELSE 0)
        + (IF /\ Truthy(needs, "needsProtection")
              /\ \E i \in 1..Len(protectTerms) :
                    \/ includes(oracleLower, protectTerms[i])
                    \/ arrayIncludes(keywordsLower, protectTerms[i])
           THEN 10 ELSE 0)
        + (IF Truthy(needs, "needsGraveyard") /\ someIncluded(graveTerms, oracleLower)
           THEN 10 ELSE 0)
        + (IF /\ Truthy(needs, "needsTokens")
              /\ includes(oracleLower, "create")
              /\ includes(oracleLower, "token")
           THEN 12 ELSE 0)
        + (IF /\ Truthy(needs, "needsTutor")
              /\ includes(oracleLower, "search your library")
              /\ includes(oracleLower, "put it into your hand")
           THEN 15 ELSE 0)
        + (IF /\ Truthy(needs, "needsLandFetch")
              /\ includes(oracleLower, "search your library for a")
              /\ includes(oracleLower, "land")
           THEN 12 ELSE 0)

BigCreatureScore(card, needs) ==
    LET power == parseInt(StringOrEmpty(card, "power"))
    IN  IF /\ Truthy(needs, "wantBigCreatures")
           /\ Has(needs, "minPower") /\ needs.minPower # 0
           /\ power # <<>> /\ power[1] >= needs.minPower
        THEN 8 ELSE 0

\* mutant: the note alone decides, whatever the card costs
CurveScoreNoteOnly(card, needs) ==
    LET cmcNote == toLowerCase(StringOrEmpty(needs, "cmcCurveNote"))
    IN    (IF includes(cmcNote, "top-heavy") \/ includes(cmcNote, "expensive")
           THEN 5 ELSE 0)
        + (IF includes(cmcNote, "too low") \/ includes(cmcNote, "needs threats")
           THEN 5 ELSE 0)

CurveScore(card, needs) ==
    LET cmcNote == toLowerCase(StringOrEmpty(needs, "cmcCurveNote"))
        cmc == NumberOrZero(card, "cmc")
    IN    (IF /\ includes(cmcNote, "top-heavy") \/ includes(cmcNote, "expensive")
              /\ cmc <= 3
           THEN 5 ELSE 0)
        + (IF /\ includes(cmcNote, "too low") \/ includes(cmcNote, "needs threats")
              /\ cmc >= 5
           THEN 5 ELSE 0)

scoreCard(card, needs) ==
      SynergyScore(card, needs)
    + KeywordScore(card, needs)
    + CreatureTypeScore(card, needs)
    + OracleTermScore(card, needs)
    + RoleScore(card, needs)
    + BigCreatureScore(card, needs)
    + CurveScore(card, needs)

-----------------------------------------------------------------------------
(* collectionFilter.js: filterCollectionByNeeds *)

\* slice(0, 100)
TopN == 100

\* Array.prototype.sort with the comparator b.relevanceScore - a.relevanceScore
\* on a sequence of [index, score]: highest score first, and (the sort is
\* stable) equal scores in the order they had. The result is built score by
\* score, from the highest of the scores in left.
RECURSIVE SortFrom(_, _)
SortFrom(scored, left) ==
    IF left = {} THEN <<>>
    ELSE SelectSeq(scored, LAMBDA c : c.score = Max(left))
            \o SortFrom(scored, left \ {Max(left)})

\* mutants: the comparator reversed; equal scores in reverse order
RECURSIVE SortFromLowest(_, _)
SortFromLowest(scored, left) ==
    IF left = {} THEN <<>>
    ELSE SelectSeq(scored, LAMBDA c : c.score = Min(left))
            \o SortFromLowest(scored, left \ {Min(left)})
SortByScoreAsc(scored) == SortFromLowest(scored, {scored[i].score : i \in 1..Len(scored)})
Reversed(seq) == [i \in 1..Len(seq) |-> seq[Len(seq) + 1 - i]]
SortByScoreDescUnstable(scored) ==
    SortFrom(Reversed(scored), {scored[i].score : i \in 1..Len(scored)})

SortByScoreDesc(scored) == SortFrom(scored, {scored[i].score : i \in 1..Len(scored)})

\* mutant: the deck's names compared as written
DeckCardNamesAsWritten(deckCards) == {deckCards[i].name : i \in 1..Len(deckCards)}

\* new Set(deckCards.map(c => c.name.toLowerCase()))
DeckCardNames(deckCards) == {toLowerCase(deckCards[i].name) : i \in 1..Len(deckCards)}

\* collection.filter(card => !deckCardNames.has(card.name?.toLowerCase())),
\* as the indices of the cards kept
NotInDeck(cards, deckCardNames) ==
    SelectSeq([i \in 1..Len(cards) |-> i],
        LAMBDA i : ~(/\ Has(cards[i], "name")
                     /\ cards[i].name # Null
                     /\ toLowerCase(cards[i].name) \in deckCardNames))

\* mutant: the cards that score 0 are kept too
RelevantOrZero(cards, needs, kept) ==
    SelectSeq([k \in 1..Len(kept) |->
                  [index |-> kept[k], score |-> scoreCard(cards[kept[k]], needs)]],
              LAMBDA c : c.score >= 0)

\* .map(card => ({ ...card, relevanceScore: scoreCard(card, needs) }))
\* .filter(card => card.relevanceScore > 0), as [index, score]
Relevant(cards, needs, kept) ==
    SelectSeq([k \in 1..Len(kept) |->
                  [index |-> kept[k], score |-> scoreCard(cards[kept[k]], needs)]],
              LAMBDA c : c.score > 0)

\* mutant: the sorted cards returned without slice(0, 100)
FilterOrderUncut(cards, needs, deckCards) ==
    SortByScoreDesc(
        Relevant(cards, needs, NotInDeck(cards, DeckCardNames(deckCards))))

\* mutant: the first 100 relevant cards are taken, then sorted
FilterOrderCutFirst(cards, needs, deckCards) ==
    LET relevant == Relevant(cards, needs,
                             NotInDeck(cards, DeckCardNames(deckCards)))
    IN  SortByScoreDesc(
            SubSeq(relevant, 1, IF Len(relevant) < TopN THEN Len(relevant) ELSE TopN))

\* the cards of the collection that are returned, as [index, score] in the
\* order of the result
FilterOrder(cards, needs, deckCards) ==
    LET sorted == SortByScoreDesc(
                     Relevant(cards, needs,
                              NotInDeck(cards, DeckCardNames(deckCards))))
    IN  SubSeq(sorted, 1, IF Len(sorted) < TopN THEN Len(sorted) ELSE TopN)

\* the returned array: a copy of each card with its relevanceScore
ScoredCards(cards, order) ==
    [k \in 1..Len(order) |->
        With(cards[order[k].index], "relevanceScore", order[k].score)]

filterCollectionByNeeds(cards, needs, deckCards) ==
    ScoredCards(cards, FilterOrder(cards, needs, deckCards))

\* The call ends in a TypeError where the code reads a property of undefined:
\* c.name.toLowerCase() on a deck card without a name (line 11). The fields
\* of needs are read with ?. or as a condition, those of a card with ?. or
\* || (lines 15, 37-40, 45-176): an absent one throws nothing.
Throws(cards, needs, deckCards) ==
    \E i \in 1..Len(deckCards) :
        ~Has(deckCards[i], "name") \/ deckCards[i].name = Null

\* mutant: the collection itself is scored and sorted, in place
InputsAfterSortInPlace(cards, needs, deckCards) ==
    [collection |->
        ScoredCards(cards,
            SortByScoreDesc([i \in 1..Len(cards) |->
                                [index |-> i, score |-> scoreCard(cards[i], needs)]])),
     needs |-> needs, deckCards |-> deckCards]

\* The three arguments as the call leaves them: filter and map return new
\* arrays, { ...card, relevanceScore } is a new object, and sort orders the
\* array map and filter returned (lines 14-21); scoreCard assigns to its own
\* locals only. Nothing is written to an argument.
InputsAfter(cards, needs, deckCards) ==
    [collection |-> cards, needs |-> needs, deckCards |-> deckCards]

-----------------------------------------------------------------------------
(* Scryfall: the card database. A card has the fields of formatCard that   *)
(* the importer reads; image_uris stands for image_uris.normal.            *)

SolRing ==
    [id |-> "id-sol-ring", name |-> "Sol Ring", type_line |-> "Artifact",
     oracle_text |-> "{T}: Add {C}{C}.", cmc |-> 1, mana_cost |-> "{1}",
     colors |-> <<>>, color_identity |-> <<>>, power |-> Null, toughness |-> Null,
     keywords |-> <<>>, image_uris |-> Null]
Isamaru ==
    [id |-> "id-isamaru", name |-> "Isamaru, Hound of Konda",
     type_line |-> "Legendary Creature - Dog", oracle_text |-> "", cmc |-> 1,
     mana_cost |-> "{W}", colors |-> <<"W">>, color_identity |-> <<"W">>,
     power |-> "2", toughness |-> "2", keywords |-> <<>>, image_uris |-> Null]
Tymna ==
    [id |-> "id-tymna", name |-> "Tymna the Weaver",
     type_line |-> "Legendary Creature - Human Cleric",
     oracle_text |-> "Lifelink. Partner.", cmc |-> 3, mana_cost |-> "{1}{W}{B}",
     colors |-> <<"B", "W">>, color_identity |-> <<"B", "W">>,
     power |-> "2", toughness |-> "2", keywords |-> <<"Lifelink", "Partner">>,
     image_uris |-> Null]
WallOfOmens ==
    [id |-> "id-wall", name |-> "Wall of Omens", type_line |-> "Creature - Wall",
     oracle_text |-> "Defender. When this enters, draw a card.", cmc |-> 2,
     mana_cost |-> "{1}{W}", colors |-> <<"W">>, color_identity |-> <<"W">>,
     power |-> "0", toughness |-> "4", keywords |-> <<"Defender">>, image_uris |-> Null]
Counterspell ==
    [id |-> "id-counterspell", name |-> "Counterspell", type_line |-> "Instant",
     oracle_text |-> "Counter target spell.", cmc |-> 2, mana_cost |-> "{U}{U}",
     colors |-> <<"U">>, color_identity |-> <<"U">>, power |-> Null, toughness |-> Null,
     keywords |-> <<>>, image_uris |-> Null]
BalefulStrix ==
    [id |-> "id-strix", name |-> "Baleful Strix",
     type_line |-> "Artifact Creature - Bird",
     oracle_text |-> "Flying, deathtouch. When this enters, draw a card.", cmc |-> 2,
     mana_cost |-> "{U}{B}", colors |-> <<"U", "B">>, color_identity |-> <<"B", "U">>,
     power |-> "1", toughness |-> "1", keywords |-> <<"Flying", "Deathtouch">>,
     image_uris |-> Null]
GrizzlyBears ==
    [id |-> "id-bears", name |-> "Grizzly Bears", type_line |-> "Creature - Bear",
     oracle_text |-> "", cmc |-> 2, mana_cost |-> "{1}{G}", colors |-> <<"G">>,
     color_identity |-> <<"G">>, power |-> "2", toughness |-> "2", keywords |-> <<>>,
     image_uris |-> Null]
Opt ==
    [id |-> "id-opt", name |-> "Opt", type_line |-> "Instant",
     oracle_text |-> "Scry 1. Draw a card.", cmc |-> 1, mana_cost |-> "{U}",
     colors |-> <<"U">>, color_identity |-> <<"U">>, power |-> Null, toughness |-> Null,
     keywords |-> <<>>, image_uris |-> Null]

ScryfallCards ==
    {SolRing, Isamaru, Tymna, WallOfOmens, Counterspell, BalefulStrix, GrizzlyBears, Opt}

\* fetchCardByName: the card of that name, <<>> (null) when Scryfall has none
fetchCardByName(name) ==
    LET hits == {c \in ScryfallCards : toLowerCase(c.name) = toLowerCase(trim(name))}
    IN  IF hits = {} THEN <<>> ELSE <<CHOOSE c \in hits : TRUE>>

IsFound(name) == fetchCardByName(name) # <<>>
IsNotFound(name) == fetchCardByName(name) = <<>>

\* findCardsByNames
findCardsByNames(names) ==
    LET hit == SelectSeq(names, IsFound)
    IN  [found |-> [i \in 1..Len(hit) |-> fetchCardByName(hit[i])[1]],
         notFound |-> SelectSeq(names, IsNotFound)]

-----------------------------------------------------------------------------
(* ManaboxParser.extractCardNames, mergeScryfallData; handleConfirmImport *)

\* [...new Set(names)]: the first occurrence of every element, in order
Unique(seq) ==
    LET first == SelectSeq([i \in 1..Len(seq) |-> i],
                           LAMBDA i : \A j \in 1..(i - 1) : seq[j] # seq[i])
    IN  [k \in 1..Len(first) |-> seq[first[k]]]

extractCardNames(parsedDeck) ==
    LET all == parsedDeck.commander \o parsedDeck.cards
    IN  Unique([i \in 1..Len(all) |-> all[i].name])

\* the entry of mergeScryfallData for a parsed card and the found card data
Enrich(card, data) ==
    [f \in DOMAIN card \cup {"scryfallId", "type", "oracleText", "cmc", "manaCost",
                             "colors", "colorIdentity", "power", "toughness",
                             "keywords", "imageUrl"} |->
        CASE f = "scryfallId"    -> data.id
          [] f = "type"          -> data.type_line
          [] f = "oracleText"    -> data.oracle_text
          [] f = "cmc"           -> data.cmc
          [] f = "manaCost"      -> data.mana_cost
          [] f = "colors"        -> data.colors
          [] f = "colorIdentity" -> IF Has(data, "colorIdentity")
                                    THEN data.colorIdentity ELSE data.color_identity
          [] f = "power"         -> data.power
          [] f = "toughness"     -> data.toughness
          [] f = "keywords"      -> data.keywords
          [] f = "imageUrl"      -> data.image_uris
          [] OTHER               -> card[f]]

\* mutant: the names are compared as written
MergeCardAsWritten(card, found) ==
    LET hits == {i \in 1..Len(found) : found[i].name = card.name}
    IN  IF hits = {} THEN With(card, "notFound", TRUE)
        ELSE Enrich(card, found[Max(hits)])

\* cardMap.get(card.name.toLowerCase()) over the found cards; the last card
\* set under a key is the one the Map holds
MergeCard(card, found) ==
    LET hits == {i \in 1..Len(found) :
                    toLowerCase(found[i].name) = toLowerCase(card.name)}
    IN  IF hits = {} THEN With(card, "notFound", TRUE)
        ELSE Enrich(card, found[Max(hits)])

mergeScryfallData(parsedDeck, scryfallResults) ==
    [commander |-> [i \in 1..Len(parsedDeck.commander) |->
                        MergeCard(parsedDeck.commander[i], scryfallResults.found)],
     cards |-> [i \in 1..Len(parsedDeck.cards) |->
                        MergeCard(parsedDeck.cards[i], scryfallResults.found)],
     notFound |-> scryfallResults.notFound,
     errors |-> parsedDeck.errors]

IsEnriched(card) == ~Has(card, "notFound")

\* s.replace(pattern, ''): the first occurrence of pattern is taken out
Remove(s, pattern) ==
    LET at == {i \in 1..(Len(s) - Len(pattern) + 1) :
                  SubSeq(s, i, i + Len(pattern) - 1) = pattern}
    IN  IF at = {} THEN s
        ELSE SubSeq(s, 1, Min(at) - 1) \o SubSeq(s, Min(at) + Len(pattern), Len(s))

\* the deck data handleConfirmImport hands to onImport
handleConfirmImport(deck, filename) ==
    [name |-> IF Len(deck.commander) > 0 THEN deck.commander[1].name
              ELSE Remove(Remove(filename, ".txt"), ".csv"),
     cards |-> SelectSeq(deck.commander \o deck.cards, IsEnriched)]

\* processImport on a text of the line dialect: parse, look the names up,
\* merge, confirm
processImport(text, filename) ==
    LET parsedDeck == parseTXT(text)
        scryfallResults == findCardsByNames(extractCardNames(parsedDeck))
    IN  handleConfirmImport(mergeScryfallData(parsedDeck, scryfallResults), filename)

\* a collection entry: the card as a deck holds it, owned quantity times
Owned(data, quantity) ==
    Enrich([name |-> data.name, quantity |-> quantity, set |-> Null,
            collectorNumber |-> Null], data)

-----------------------------------------------------------------------------
(* Card objects: the heap, references, JSON *)

Undefined == "undefined"
ScryfallIdOf(card) == IF Has(card, "scryfallId") THEN card.scryfallId ELSE Undefined

\* arr.find(P): the index of the first element that satisfies P, 0 for none
FindIndex(arr, P(_)) ==
    LET hits == {i \in 1..Len(arr) : P(arr[i])}
    IN  IF hits = {} THEN 0 ELSE Min(hits)

\* the objects behind an array of references
CardsOf(h, refs) == [i \in 1..Len(refs) |-> h[refs[i]]]
DeckValue(h, deck) == [deck EXCEPT !.cards = CardsOf(h, @)]
\* JSON.stringify: the objects are written out by value
Stringify(h, ds) == [i \in 1..Len(ds) |-> DeckValue(h, ds[i])]

\* new objects for an array of cards
Alloc(h, cards) ==
    [heap |-> h \o cards, refs |-> [i \in 1..Len(cards) |-> Len(h) + i]]

\* JSON.parse of an array of decks: every card is a new object
RECURSIVE ParseDecks(_, _, _)
ParseDecks(h, values, ds) ==
    IF values = <<>> THEN [heap |-> h, decks |-> ds]
    ELSE LET a == Alloc(h, values[1].cards)
         IN  ParseDecks(a.heap, Tail(values),
                        Append(ds, [values[1] EXCEPT !.cards = a.refs]))

RECURSIVE Flatten(_)
Flatten(seqs) == IF seqs = <<>> THEN <<>> ELSE seqs[1] \o Flatten(Tail(seqs))

\* every reference the page state holds, in a fixed order
AllRefs(st) ==
    Flatten([i \in 1..Len(st.decks) |-> st.decks[i].cards])
    \o Flatten([i \in 1..Len(st.currentDeck) |-> st.currentDeck[i].cards])
    \o st.collection
    \o Flatten([i \in 1..Len(st.lastAction) |->
                   st.lastAction[i].previousCollection \o st.lastAction[i].addedCards])

\* Objects nothing refers to are collected; the others are numbered in the
\* order of AllRefs, so that a state is told by what refers to what.
Collect(st) ==
    LET live == Unique(AllRefs(st))
        new(r) == CHOOSE k \in 1..Len(live) : live[k] = r
        renamed(refs) == [i \in 1..Len(refs) |-> new(refs[i])]
        deck(d) == [d EXCEPT !.cards = renamed(@)]
    IN  [heap |-> [k \in 1..Len(live) |-> st.heap[live[k]]],
         decks |-> [i \in 1..Len(st.decks) |-> deck(st.decks[i])],
         currentDeck |-> [i \in 1..Len(st.currentDeck) |-> deck(st.currentDeck[i])],
         collection |-> renamed(st.collection),
         lastAction |-> [i \in 1..Len(st.lastAction) |->
             [st.lastAction[i] EXCEPT !.previousCollection = renamed(@),
                                      !.addedCards = renamed(@)]]]

Page == [heap |-> heap, decks |-> decks, currentDeck |-> currentDeck,
         collection |-> collection, lastAction |-> lastAction]

\* the page state after a handler
Render(st) ==
    \E c \in {Collect(st)} :
        /\ heap' = c.heap
        /\ decks' = c.decks
        /\ currentDeck' = c.currentDeck
        /\ collection' = c.collection
        /\ lastAction' = c.lastAction

-----------------------------------------------------------------------------
(* App.jsx: the effects that save to localStorage *)

SavedFields ==
    {"scryfallId", "name", "set", "collectorNumber", "quantity", "colors", "type",
     "manaCost", "cmc"}

\* the fields the collection effect keeps; a field the card lacks is undefined
\* and JSON.stringify leaves it out
OptimizedCard(card) == [f \in SavedFields \cap DOMAIN card |-> card[f]]
optimizedCollection(cards) == [i \in 1..Len(cards) |-> OptimizedCard(cards[i])]

\* useEffect on [decks]
SaveDecks(store, deckValues) ==
    IF Len(deckValues) > 0 THEN [store EXCEPT !.mtg_decks = <<deckValues>>] ELSE store

\* useEffect on [collection]
SaveCollection(store, cards) ==
    IF Len(cards) > 0
    THEN [store EXCEPT
            !.mtg_collection = <<optimizedCollection(cards)>>,
            !.mtg_collection_backup_old =
                IF store.mtg_collection_backup # <<>>
                THEN store.mtg_collection_backup ELSE @,
            !.mtg_collection_backup = <<optimizedCollection(cards)>>]
    ELSE store

-----------------------------------------------------------------------------
(* CollectionManager.jsx, AIAnalyzer.jsx: availability and legal cards *)

\* getCardUsage: in each deck, the quantity of the first entry of that card
getCardUsage(card, deckValues) ==
    LET inDeck(d) ==
            LET k == FindIndex(d.cards,
                               LAMBDA c : ScryfallIdOf(c) = ScryfallIdOf(card))
            IN  IF k = 0 THEN 0 ELSE d.cards[k].quantity
        RECURSIVE total(_)
        total(n) == IF n = 0 THEN 0 ELSE total(n - 1) + inDeck(deckValues[n])
    IN  total(Len(deckValues))

collectionWithAvailability(cards, deckValues) ==
    [i \in 1..Len(cards) |->
        With(With(cards[i], "inUse", getCardUsage(cards[i], deckValues)),
             "available", cards[i].quantity - getCardUsage(cards[i], deckValues))]

HasAvailable(card) == card.available > 0

getAvailableCards(cards, deckValues) ==
    SelectSeq([i \in 1..Len(cards) |->
                  With(cards[i], "available",
                       cards[i].quantity - getCardUsage(cards[i], deckValues))],
              HasAvailable)

\* the commanders analyzeWithAI takes from the deck
IsCommanderAt(cards, i) ==
    \/ i = 1
    \/ /\ i < 3
       /\ includes(toLowerCase(StringOrEmpty(cards[i], "type")), "legendary")
       /\ includes(toLowerCase(StringOrEmpty(cards[i], "type")), "creature")
Commanders(cards) ==
    LET idx == SelectSeq([i \in 1..Len(cards) |-> i],
                         LAMBDA i : IsCommanderAt(cards, i))
    IN  [k \in 1..Len(idx) |-> cards[idx[k]]]

\* getColorIdentity: the set of the commanders' colours
getColorIdentity(cards) ==
    UNION {{cards[i].colorIdentity[k] : k \in 1..Len(cards[i].colorIdentity)} :
              i \in {j \in 1..Len(cards) : Has(cards[j], "colorIdentity")}}

\* card.colorIdentity || card.color_identity || []
CardCI(card) ==
    IF Has(card, "colorIdentity") THEN card.colorIdentity
    ELSE IF Has(card, "color_identity") THEN card.color_identity
    ELSE <<>>

legalCards(availableCards, colorIdentity) ==
    SelectSeq(availableCards,
              LAMBDA card : \A k \in 1..Len(CardCI(card)) :
                                CardCI(card)[k] \in colorIdentity)

-----------------------------------------------------------------------------
(* The scorer as a state machine: inputs are chosen, the filter is applied *)

MaxColl == 2

FilterCards ==
    {Owned(SolRing, 1), Owned(WallOfOmens, 2), Owned(Counterspell, 1),
     Owned(BalefulStrix, 1), Owned(GrizzlyBears, 4)}

\* the i-th of many distinct cards of one kind
PadCard(i) == [Owned(Opt, 1) EXCEPT !.scryfallId = "id-opt-" \o ToString(i)]
\* enough of them to fill the result but for one place
Padding == [i \in 1..(TopN - 1) |-> PadCard(i)]

NeedsPool ==
    { <<>>,
      [needsRemoval |-> FALSE, needsRamp |-> FALSE, needsCardDraw |-> FALSE,
       synergyOracleTerms |-> <<>>, wantedKeywords |-> <<>>, cmcCurveNote |-> ""],
      [needsRemoval |-> FALSE, needsCardDraw |-> FALSE, synergyOracleTerms |-> <<>>,
       cmcCurveNote |-> "Top-heavy"],
      [needsCardDraw |-> TRUE, synergyOracleTerms |-> <<"wall", "Defender">>,
       wantedKeywords |-> <<"flying">>],
      [needsRamp |-> TRUE, needsCounterspells |-> TRUE, needsCardDraw |-> TRUE,
       wantBigCreatures |-> TRUE, minPower |-> 2,
       cmcCurveNote |-> "Top-heavy, too expensive"],
      [needsCardDraw |-> TRUE, wantBigCreatures |-> TRUE] }

DeckCardsPool ==
    { <<>>,
      <<Owned(WallOfOmens, 1), [Owned(SolRing, 1) EXCEPT !.name = "sol ring"]>>,
      <<Owned(BalefulStrix, 1), Owned(Opt, 1)>> }

SmallCollections == UNION {[1..n -> FilterCards] : n \in 0..MaxColl}
OneOrNone == {<<>>} \cup {<<c>> : c \in FilterCards}
LargeCollections == {front \o Padding \o back : front \in OneOrNone, back \in OneOrNone}

InitFilter ==
    /\ fCollection \in SmallCollections \cup LargeCollections
    /\ fNeeds \in NeedsPool
    /\ fDeckCards \in DeckCardsPool
    /\ fResult = <<>> /\ fOrder = <<>> /\ fDone = FALSE /\ fError = FALSE
    /\ ParserIdle
    /\ AppIdle
    /\ ImportIdle

Filter ==
    /\ ~fDone
    /\ fError' = Throws(fCollection, fNeeds, fDeckCards)
    /\ IF fError'
       THEN fResult' = <<>> /\ fOrder' = <<>>
       ELSE \E order \in {FilterOrder(fCollection, fNeeds, fDeckCards)} :
               /\ fResult' = ScoredCards(fCollection, order)
               /\ fOrder' = [k \in 1..Len(order) |-> order[k].index]
    /\ \E after \in {InputsAfter(fCollection, fNeeds, fDeckCards)} :
          /\ fCollection' = after.collection
          /\ fNeeds' = after.needs
          /\ fDeckCards' = after.deckCards
    /\ fDone' = TRUE
    /\ UNCHANGED <<parserVars, appVars, importVars>>

NextFilter == Filter

SpecFilter == InitFilter /\ [][NextFilter]_vars

-----------------------------------------------------------------------------
(* The scorer on cards whose texts repeat the phrases of a role, with the
   needs that raise one signal each *)

MaxScored == 2

RoleCard(name, type, oracleText, keywords) ==
    [scryfallId |-> "id-" \o name, name |-> name, quantity |-> 1, type |-> type,
     oracleText |-> oracleText, keywords |-> keywords, cmc |-> 4]

RoleCards ==
    { RoleCard("Twin Insight", "Sorcery", "Draw a card. Draw a card.", <<>>),
      RoleCard("Purge", "Sorcery",
               "Destroy target creature. Exile target artifact. Destroy all tokens. Exile all creatures.",
               <<>>),
      RoleCard("Denial", "Instant",
               "Counter target spell. Counter target creature spell. Draw two cards, then draw three cards.",
               <<>>),
      RoleCard("Revenant", "Creature - Spirit",
               "Hexproof, indestructible. When this creature dies, return it from your graveyard. Create a Spirit token. Create a Zombie token.",
               <<"Hexproof", "Indestructible">>),
      RoleCard("Seeker", "Sorcery",
               "Search your library for a land card and put it into your hand. Search your library for a card and put it into your hand.",
               <<>>),
      RoleCard("Stone Sentry", "Creature - Wall", "This creature is a Wall", <<"Defender">>),
      RoleCard("Wall of Defenders", "Creature", "WALL. Walls you control have DEFENDER.", <<>>),
      RoleCard("Bear", "Creature - Bear", "", <<>>) }

\* a creature with a power as Scryfall writes it and a mana value
PowerCard(name, power, cmc) ==
    [scryfallId |-> "id-" \o name, name |-> name, quantity |-> 1,
     type |-> "Creature", oracleText |-> "", keywords |-> <<>>,
     power |-> power, cmc |-> cmc]

PowerCards ==
    { PowerCard("Ogre", "3", 3),
      PowerCard("Hydra", "*", 5),
      PowerCard("Lhurgoyf", "1+*", 6),
      PowerCard("Ornithopter", "0", 0),
      \* a card without a mana value and without a power
      [scryfallId |-> "id-Blank", name |-> "Blank", quantity |-> 1,
       type |-> "Card", oracleText |-> "", keywords |-> <<>>] }

BigCreatureNeeds ==
    { [wantBigCreatures |-> TRUE, minPower |-> 0],
      [wantBigCreatures |-> TRUE, minPower |-> 1],
      [wantBigCreatures |-> TRUE, minPower |-> 3],
      [wantBigCreatures |-> TRUE],
      [wantBigCreatures |-> FALSE, minPower |-> 1] }

CurveNeeds ==
    { [cmcCurveNote |-> "Top-heavy, and the early curve is too low"],
      [cmcCurveNote |-> "Too expensive; needs threats"],
      [cmcCurveNote |-> "Needs Threats"],
      [cmcCurveNote |-> "Fine"] }

RoleFlags ==
    {"needsRemoval", "needsCardDraw", "needsBoardWipes", "needsCounterspells",
     "needsProtection", "needsGraveyard", "needsTokens", "needsTutor", "needsLandFetch"}

\* a need that raises one role signal and nothing else
RoleNeed(flag) == [f \in {flag} |-> TRUE]

SynergyNeeds ==
    { [synergyOracleTerms |-> <<"wall", "defender">>],
      [synergyOracleTerms |-> <<"Wall">>],
      [synergyOracleTerms |-> <<"sentry", "spirit", "wall">>] }

ScoreNeeds ==
    {RoleNeed(flag) : flag \in RoleFlags} \cup SynergyNeeds
        \cup BigCreatureNeeds \cup CurveNeeds

InitScore ==
    /\ fCollection \in UNION {[1..n -> RoleCards \cup PowerCards] : n \in 0..MaxScored}
    /\ fNeeds \in ScoreNeeds
    /\ fDeckCards = <<>>
    /\ fResult = <<>> /\ fOrder = <<>> /\ fDone = FALSE /\ fError = FALSE
    /\ ParserIdle
    /\ AppIdle
    /\ ImportIdle

SpecScore == InitScore /\ [][NextFilter]_vars

-----------------------------------------------------------------------------
(* The application as a state machine: decks are imported, their cards are *)
(* added to the collection, the page is reloaded, a backup is restored,    *)
(* the deck is analyzed                                                    *)

MaxDecks == 2
MaxQuantity == 2
MaxEntries == 2

DeckTexts ==
    { "1 Tymna the Weaver\n1 Isamaru, Hound of Konda\n1 Sol Ring",
      "// Commander\n1 Baleful Strix\n// Main\n1 Baleful Strix" }

ImportableDecks == {processImport(text, "deck.txt") : text \in DeckTexts}

\* the needs the first step of the analysis can answer with
AnalysisNeeds ==
    { [needsCardDraw |-> TRUE, synergyOracleTerms |-> <<"wall", "Defender">>,
       wantedKeywords |-> <<"flying">>],
      [needsRamp |-> TRUE, cmcCurveNote |-> "Top-heavy, too expensive"] }

Init ==
    /\ AppIdle
    /\ ImportIdle
    /\ ParserIdle
    /\ FilterIdle

\* handleManaboxImport, then the effect on [decks]
HandleManaboxImport(newDeck) ==
    /\ Len(decks) < MaxDecks
    /\ LET a == Alloc(heap, newDeck.cards)
           deckWithMetadata ==
               [id |-> IF Has(newDeck, "id") THEN newDeck.id ELSE now + 1,
                name |-> IF newDeck.name # "" THEN newDeck.name
                         ELSE "Deck " \o ToString(Len(decks) + 1),
                cards |-> a.refs,
                createdAt |-> now + 1]
           st == [Page EXCEPT !.heap = a.heap,
                              !.decks = Append(decks, deckWithMetadata),
                              !.currentDeck = <<deckWithMetadata>>]
       IN  /\ Render(st)
           /\ storage' = SaveDecks(storage, Stringify(st.heap, st.decks))
    /\ now' = now + 1
    /\ analysis' = <<>>
    /\ UNCHANGED <<parserVars, filterVars, importVars>>

\* DeckViewer: setCurrentDeck(deck) on a deck of the list
SetCurrentDeck(i) ==
    /\ i \in 1..Len(decks)
    /\ Render([Page EXCEPT !.currentDeck = <<decks[i]>>])
    /\ analysis' = <<>>
    /\ UNCHANGED <<storage, now, parserVars, filterVars, importVars>>

\* DeckViewer's selectedCards: cards of the current deck, no two with one
\* scryfallId (handleSelectCard), or all of them (handleSelectAll)
Selections(h, cards) ==
    LET n == Len(cards)
        pick(S) == SelectSeq(cards, LAMBDA r : \E i \in S : cards[i] = r)
    IN  {pick(S) : S \in {T \in SUBSET (1..n) :
            /\ T # {}
            /\ \/ T = 1..n
               \/ \A i, j \in T : i # j =>
                      ScryfallIdOf(h[cards[i]]) # ScryfallIdOf(h[cards[j]])}}

\* the forEach of handleAddToCollection: existing.quantity += card.quantity
\* writes to the object the collection holds, push(card) stores the deck's
\* object itself
RECURSIVE AddCards(_, _, _)
AddCards(h, newCollection, cards) ==
    IF cards = <<>> THEN [heap |-> h, collection |-> newCollection]
    ELSE LET card == cards[1]
             existing == FindIndex(newCollection,
                 LAMBDA r : ScryfallIdOf(h[r]) = ScryfallIdOf(h[card]))
         IN  IF ~Has(h[card], "scryfallId") \/ h[card].scryfallId = ""
             THEN AddCards(h, newCollection, Tail(cards))
             ELSE IF existing # 0
             THEN AddCards([h EXCEPT ![newCollection[existing]].quantity =
                                         @ + h[card].quantity],
                           newCollection, Tail(cards))
             ELSE AddCards(h, Append(newCollection, card), Tail(cards))

\* handleAddToCollection, then the effect on [collection]; the model follows
\* quantities up to maxQuantity
AddToCollection(cards, maxQuantity) ==
    /\ LET added == AddCards(heap, collection, cards)
           st == [Page EXCEPT
                     !.heap = added.heap,
                     !.collection = added.collection,
                     !.lastAction = <<[type |-> "addToCollection",
                                       previousCollection |-> collection,
                                       addedCards |-> cards]>>]
       IN  /\ Len(added.collection) <= MaxEntries
           /\ \A r \in 1..Len(added.heap) : added.heap[r].quantity <= maxQuantity
           /\ Render(st)
           /\ storage' = SaveCollection(storage, CardsOf(st.heap, st.collection))
    /\ analysis' = <<>>
    /\ UNCHANGED <<now, parserVars, filterVars, importVars>>

HandleAddToCollection(cards) == AddToCollection(cards, MaxQuantity)

\* DeckViewer: handleAddSelectedToCollection
HandleAddSelectedToCollection ==
    /\ currentDeck # <<>>
    /\ \E selectedCards \in Selections(heap, currentDeck[1].cards) :
           HandleAddToCollection(selectedCards)

\* the page is loaded again: the state starts empty, the first effect reads
\* localStorage, then the effects on [decks] and [collection] save
Reload ==
    /\ LET savedDecks == storage.mtg_decks
           savedCollection == storage.mtg_collection
           d == ParseDecks(<<>>, IF savedDecks # <<>> THEN savedDecks[1] ELSE <<>>,
                           <<>>)
           c == Alloc(d.heap,
                      IF savedCollection # <<>> THEN savedCollection[1] ELSE <<>>)
           st == [heap |-> c.heap, decks |-> d.decks, currentDeck |-> <<>>,
                  collection |-> c.refs, lastAction |-> <<>>]
       IN  /\ Render(st)
           /\ storage' = SaveCollection(
                             SaveDecks(storage, Stringify(st.heap, st.decks)),
                             CardsOf(st.heap, st.collection))
    /\ analysis' = <<>>
    /\ UNCHANGED <<now, parserVars, filterVars, importVars>>

\* CollectionManager: handleRestoreBackup, confirmed, then the effect on
\* [collection]
HandleRestoreBackup ==
    /\ storage.mtg_collection_backup # <<>>
    /\ LET backupData == Alloc(heap, storage.mtg_collection_backup[1])
           st == [Page EXCEPT !.heap = backupData.heap,
                              !.collection = backupData.refs]
       IN  /\ Render(st)
           /\ storage' = SaveCollection(storage, CardsOf(st.heap, st.collection))
    /\ analysis' = <<>>
    /\ UNCHANGED <<now, parserVars, filterVars, importVars>>

\* analyzeWithAI up to the end of its second step, with the needs the first
\* step returned
AnalyzeWithAI(needs) ==
    /\ currentDeck # <<>>
    /\ LET deck == DeckValue(heap, currentDeck[1])
           commanders == Commanders(deck.cards)
           availableCards == getAvailableCards(CardsOf(heap, collection),
                                               Stringify(heap, decks))
           colorIdentity == getColorIdentity(commanders)
           legal == legalCards(availableCards, colorIdentity)
       IN  analysis' = <<[colorIdentity |-> colorIdentity,
                          availableCards |-> availableCards,
                          legalCards |-> legal,
                          filteredCollection |->
                              filterCollectionByNeeds(legal, needs, deck.cards)]>>
    /\ UNCHANGED <<heap, decks, currentDeck, collection, lastAction, storage, now,
                   parserVars, filterVars, importVars>>

Next ==
    \/ \E newDeck \in ImportableDecks : HandleManaboxImport(newDeck)
    \/ \E i \in 1..MaxDecks : SetCurrentDeck(i)
    \/ HandleAddSelectedToCollection
    \/ Reload
    \/ HandleRestoreBackup
    \/ \E needs \in AnalysisNeeds : AnalyzeWithAI(needs)

Spec == Init /\ [][Next]_vars

-----------------------------------------------------------------------------
(* Decks are imported and their cards are added to the collection, again   *)
(* and again: the same handlers, with quantities followed further          *)

MaxAddQuantity == 4

AddSelectedToCollection ==
    /\ currentDeck # <<>>
    /\ \E selectedCards \in Selections(heap, currentDeck[1].cards) :
           AddToCollection(selectedCards, MaxAddQuantity)

NextAdd ==
    \/ \E newDeck \in ImportableDecks : HandleManaboxImport(newDeck)
    \/ \E i \in 1..MaxDecks : SetCurrentDeck(i)
    \/ AddSelectedToCollection

SpecAdd == Init /\ [][NextAdd]_vars

-----------------------------------------------------------------------------
(* Cards are added to the collection and the add is undone *)

\* handleUndo, confirmed, then the effect on [collection]
HandleUndo ==
    /\ lastAction # <<>>
    /\ lastAction[1].type = "addToCollection"
    /\ LET st == [Page EXCEPT !.collection = lastAction[1].previousCollection,
                              !.lastAction = <<>>]
       IN  /\ Render(st)
           /\ storage' = SaveCollection(storage, CardsOf(st.heap, st.collection))
    /\ analysis' = <<>>
    /\ UNCHANGED <<now, parserVars, filterVars, importVars>>

NextUndo ==
    \/ \E newDeck \in ImportableDecks : HandleManaboxImport(newDeck)
    \/ \E i \in 1..MaxDecks : SetCurrentDeck(i)
    \/ HandleAddSelectedToCollection
    \/ HandleUndo

SpecUndo == Init /\ [][NextUndo]_vars

-----------------------------------------------------------------------------
(* Decks and cards are deleted, the collection is cleared, the page is     *)
(* loaded again                                                            *)

\* DeckViewer: handleDeleteDeck on the deck shown, App's handleDeleteDeck,
\* then the effect on [decks]
HandleDeleteDeck ==
    /\ currentDeck # <<>>
    /\ LET deckId == currentDeck[1].id
           st == [Page EXCEPT
                     !.decks = SelectSeq(decks, LAMBDA d : d.id # deckId),
                     !.currentDeck = <<>>]
       IN  /\ Render(st)
           /\ storage' = SaveDecks(storage, Stringify(st.heap, st.decks))
    /\ analysis' = <<>>
    /\ UNCHANGED <<now, parserVars, filterVars, importVars>>

\* CollectionManager: a card is deleted from the collection (the confirmed
\* delete of one card, handleDeleteSelected with that card selected), then
\* the effect on [collection]
HandleDeleteCard(i) ==
    /\ i \in 1..Len(collection)
    /\ LET st == [Page EXCEPT
                     !.collection =
                         SelectSeq(collection, LAMBDA r :
                             ScryfallIdOf(heap[r]) # ScryfallIdOf(heap[collection[i]]))]
       IN  /\ Render(st)
           /\ storage' = SaveCollection(storage, CardsOf(st.heap, st.collection))
    /\ analysis' = <<>>
    /\ UNCHANGED <<now, parserVars, filterVars, importVars>>

\* CollectionManager: handleClearCollection, confirmed, then the effect on
\* [collection]
HandleClearCollection ==
    /\ LET st == [Page EXCEPT !.collection = <<>>]
       IN  /\ Render(st)
           /\ storage' = SaveCollection(storage, CardsOf(st.heap, st.collection))
    /\ analysis' = <<>>
    /\ UNCHANGED <<now, parserVars, filterVars, importVars>>

\* the imports the model follows in one run
MaxImports == 1

\* a deck is imported, MaxImports times at most
ImportDeck ==
    \E newDeck \in ImportableDecks : now < MaxImports /\ HandleManaboxImport(newDeck)

NextStore ==
    \/ ImportDeck
    \/ \E i \in 1..MaxDecks : SetCurrentDeck(i)
    \/ HandleDeleteDeck
    \/ HandleAddSelectedToCollection
    \/ \E i \in 1..MaxEntries : HandleDeleteCard(i)
    \/ HandleClearCollection
    \/ Reload

SpecStore == Init /\ [][NextStore]_vars

-----------------------------------------------------------------------------
(* Decks are imported, changed and deleted, and a backup file is restored *)

\* DeckViewer: handleDeleteSelected on a selection of the deck shown, App's
\* handleUpdateDeck, then the effect on [decks]
HandleUpdateDeck(selectedCards) ==
    /\ LET remainingCards ==
               SelectSeq(currentDeck[1].cards, LAMBDA r :
                   \A k \in 1..Len(selectedCards) :
                       ScryfallIdOf(heap[selectedCards[k]]) # ScryfallIdOf(heap[r]))
           updatedDeck == [currentDeck[1] EXCEPT !.cards = remainingCards]
           st == [Page EXCEPT
                     !.decks = [i \in 1..Len(decks) |->
                                   IF decks[i].id = updatedDeck.id
                                   THEN updatedDeck ELSE decks[i]],
                     !.currentDeck = <<updatedDeck>>]
       IN  /\ Render(st)
           /\ storage' = SaveDecks(storage, Stringify(st.heap, st.decks))
    /\ analysis' = <<>>
    /\ UNCHANGED <<now, parserVars, filterVars, importVars>>

HandleDeleteSelected ==
    /\ currentDeck # <<>>
    /\ \E selectedCards \in Selections(heap, currentDeck[1].cards) :
           HandleUpdateDeck(selectedCards)

\* the backup files of handleExportAllData that can be restored: one made
\* before anything was imported, and one made with a deck imported
BackupFiles ==
    {[decks |-> <<>>, collection |-> <<>>]}
        \cup {[decks |-> <<[id |-> 1, name |-> newDeck.name, cards |-> newDeck.cards,
                            createdAt |-> 1]>>,
               collection |-> <<>>] : newDeck \in ImportableDecks}

\* handleImportAllData, confirmed, then the effects on [decks] and
\* [collection]
HandleImportAllData(importedData) ==
    /\ LET d == ParseDecks(heap, importedData.decks, <<>>)
           c == Alloc(d.heap, importedData.collection)
           st == [Page EXCEPT !.heap = c.heap,
                              !.decks = d.decks,
                              !.collection = c.refs]
       IN  /\ Render(st)
           /\ storage' = SaveCollection(
                             SaveDecks(storage, Stringify(st.heap, st.decks)),
                             CardsOf(st.heap, st.collection))
    /\ analysis' = <<>>
    /\ UNCHANGED <<now, parserVars, filterVars, importVars>>

NextDecks ==
    \/ ImportDeck
    \/ \E i \in 1..MaxDecks : SetCurrentDeck(i)
    \/ HandleDeleteDeck
    \/ HandleDeleteSelected
    \/ \E importedData \in BackupFiles : HandleImportAllData(importedData)

SpecDecks == Init /\ [][NextDecks]_vars

-----------------------------------------------------------------------------
(* ManaboxParser.parseCSVLine, parseCSV, parse *)

\* the loop of parseCSVLine from character i on: a quote toggles inQuotes and
\* is dropped, a comma outside quotes ends the field
RECURSIVE CsvScan(_, _, _, _, _)
CsvScan(line, i, current, inQuotes, result) ==
    IF i > Len(line) THEN Append(result, current)
    ELSE IF CharAt(line, i) = "\""
    THEN CsvScan(line, i + 1, current, ~inQuotes, result)
    ELSE IF CharAt(line, i) = "," /\ ~inQuotes
    THEN CsvScan(line, i + 1, "", inQuotes, Append(result, current))
    ELSE CsvScan(line, i + 1, current \o CharAt(line, i), inQuotes, result)

parseCSVLine(line) == CsvScan(line, 1, "", FALSE, <<>>)

\* this.parseCSVLine(lines[0]).map(h => h.toLowerCase().trim())
CsvHeaders(line) ==
    [i \in 1..Len(parseCSVLine(line)) |-> trim(toLowerCase(parseCSVLine(line)[i]))]

\* headers.findIndex(...) for the four columns, counted from 1; 0 is -1
IsNameHeader(h) == h = "name" \/ h = "card name"
IsQtyHeader(h) == includes(h, "quantity") \/ includes(h, "qty") \/ h = "count"
IsSetHeader(h) == h = "set code" \/ h = "set" \/ h = "edition"
IsCollectorHeader(h) == includes(h, "collector") \/ includes(h, "number")

nameIdx(headers) == FindIndex(headers, IsNameHeader)
qtyIdx(headers) == FindIndex(headers, IsQtyHeader)
setIdx(headers) == FindIndex(headers, IsSetHeader)
collectorIdx(headers) == FindIndex(headers, IsCollectorHeader)

\* headers.join(', ')
RECURSIVE join(_, _)
join(arr, sep) ==
    IF Len(arr) = 0 THEN ""
    ELSE IF Len(arr) = 1 THEN arr[1]
    ELSE arr[1] \o sep \o join(Tail(arr), sep)

\* cols[idx]?.trim(): undefined when the row has no such column
ColTrim(cols, idx) ==
    IF idx >= 1 /\ idx <= Len(cols) THEN trim(cols[idx]) ELSE Undefined

\* qtyIdx !== -1 ? (parseInt(cols[qtyIdx]) || 1) : 1
CsvQuantity(cols, idx) ==
    IF idx = 0 \/ idx > Len(cols) THEN 1
    ELSE IF parseInt(cols[idx]) = <<>> \/ parseInt(cols[idx]) = <<0>> THEN 1
    ELSE parseInt(cols[idx])[1]

\* the object of line 465
CsvCard(cols, headers) ==
    [name |-> ColTrim(cols, nameIdx(headers)),
     quantity |-> CsvQuantity(cols, qtyIdx(headers)),
     set |-> IF setIdx(headers) # 0 THEN ColTrim(cols, setIdx(headers)) ELSE Null,
     collectorNumber |-> IF collectorIdx(headers) # 0
                         THEN ColTrim(cols, collectorIdx(headers)) ELSE Null]

\* lines 462-466 on cardsByName: the name is an own key, an inherited key of
\* the object literal, or new
StoreRow(byName, nameLower, card) ==
    IF HasOwn(byName, nameLower)
    THEN [byName EXCEPT ![OwnIndex(byName, nameLower)].value.quantity =
                            @ + card.quantity]
    ELSE IF nameLower \in InheritedKeys THEN byName
    ELSE Append(byName, [key |-> nameLower, value |-> card])

\* one iteration of the loop of lines 449-467
CsvRowStep(byName, cols, headers) ==
    IF Len(cols) < 2 THEN byName
    ELSE IF ColTrim(cols, nameIdx(headers)) \in {Undefined, ""} THEN byName
    ELSE StoreRow(byName, toLowerCase(ColTrim(cols, nameIdx(headers))),
                  CsvCard(cols, headers))

RECURSIVE CsvRows(_, _, _)
CsvRows(byName, rows, headers) ==
    IF rows = <<>> THEN byName
    ELSE CsvRows(CsvRowStep(byName, parseCSVLine(Head(rows)), headers),
                 Tail(rows), headers)

\* mutant: the rows are read although the header names no name column (the
\* name is then looked up in column -1, which no row has)
CsvTableUnchecked(lines, headers) ==
    [commander |-> <<>>,
     cards |-> ObjectValues(CsvRows(<<>>, Tail(lines), headers)),
     errors |-> <<>>]

\* lines 438-472: the result for the header and the lines of the table
CsvTable(lines, headers) ==
    IF nameIdx(headers) = 0
    THEN [commander |-> <<>>, cards |-> <<>>,
          errors |-> <<[line |-> lines[1],
                        reason |-> "Could not find \"Name\" column in CSV. Found: "
                                      \o join(headers, ", ")]>>]
    ELSE [commander |-> <<>>,
          cards |-> ObjectValues(CsvRows(<<>>, Tail(lines), headers)),
          errors |-> <<>>]

CsvOf(lines) ==
    IF Len(lines) < 2
    THEN [commander |-> <<>>, cards |-> <<>>,
          errors |-> <<[line |-> "", reason |-> "CSV file is empty"]>>]
    ELSE CsvTable(lines, CsvHeaders(lines[1]))

parseCSV(text) == CsvOf(TxtLines(text))

\* lines 364-365: the first line of the text, trimmed, holds a comma and
\* "name" or "binder"
IsCSV(firstLine) ==
    /\ includes(firstLine, ",")
    /\ \/ includes(toLowerCase(firstLine), "name")
       \/ includes(toLowerCase(firstLine), "binder")

parse(text) ==
    IF IsCSV(trim(split(text)[1])) THEN parseCSV(text) ELSE parseTXT(text)

-----------------------------------------------------------------------------
(* ManaboxParser.parse as a state machine: a text of either dialect is     *)
(* chosen, parse is applied                                                *)

CsvLinePool ==
    { "Binder Name,Quantity",
      "Name,Quantity,Set code,Collector number",
      "Binder,Count",
      "Sol Ring,2,C21,263",
      "\"Ring, Sol\",1",
      "sol ring,0,LTC",
      ",3",
      "1 Sol Ring (C21) 263",
      "0 Opt",
      "Opt,-2",
      "" }

CsvTexts == UNION { {JoinLines(ls) : ls \in [1..n -> CsvLinePool]} : n \in 1..MaxLines }

InitParse ==
    /\ pText \in CsvTexts
    /\ pDeck = NoDeck
    /\ pDone = FALSE
    /\ FilterIdle
    /\ AppIdle
    /\ ImportIdle

Parse ==
    /\ ~pDone
    /\ pDeck' = parse(pText)
    /\ pDone' = TRUE
    /\ UNCHANGED <<pText, filterVars, appVars, importVars>>

NextParse == Parse

SpecParse == InitParse /\ [][NextParse]_vars

-----------------------------------------------------------------------------
(* ManaboxImporter as a state machine: processImport parses the text,      *)
(* looks the names up and merges; handleConfirmImport hands the deck on    *)

\* What the lookup by ?fuzzy=name can answer: null (404, or a request that
\* failed), or the card Scryfall takes the name for, whose own name holds the
\* name asked for and need not equal it.
Answers(name) ==
    {<<>>} \cup {<<c>> : c \in {d \in ScryfallCards :
                    includes(toLowerCase(d.name), toLowerCase(trim(name)))}}

\* findCardsByNames for the answers to each name: found holds the cards in
\* the order asked, notFound the names that got null
LookupResult(names, answer) ==
    LET at == [i \in 1..Len(names) |-> i]
        hit == SelectSeq(at, LAMBDA i : answer[i] # <<>>)
        miss == SelectSeq(at, LAMBDA i : answer[i] = <<>>)
    IN  [found |-> [k \in 1..Len(hit) |-> answer[hit[k]][1]],
         notFound |-> [k \in 1..Len(miss) |-> names[miss[k]]]]

LookupResults(names) ==
    {LookupResult(names, answer) :
        answer \in {a \in [1..Len(names) -> UNION {Answers(names[i]) : i \in 1..Len(names)}] :
                       \A i \in 1..Len(names) : a[i] \in Answers(names[i])}}

ImportLinePool ==
    { "1 Sol Ring (C21) 263",
      "2 sol ring",
      "1 Isamaru",
      "3 Storm Crow",
      "// Commander",
      "1 Tymna the Weaver" }

ImportTexts ==
    UNION { {JoinLines(ls) : ls \in [1..n -> ImportLinePool]} : n \in 1..MaxLines }

InitImport ==
    /\ iText \in ImportTexts
    /\ iParsed = NoDeck
    /\ iResults = [found |-> <<>>, notFound |-> <<>>]
    /\ iMerged = <<>>
    /\ iImported = <<>>
    /\ iStage = "start"
    /\ ParserIdle
    /\ FilterIdle
    /\ AppIdle

\* processImport: no result when the text holds no card
ProcessImport ==
    /\ iStage = "start"
    /\ iParsed' = parse(iText)
    /\ IF Len(iParsed'.commander) + Len(iParsed'.cards) = 0
       THEN /\ iStage' = "failed"
            /\ UNCHANGED <<iResults, iMerged>>
       ELSE /\ iResults' \in LookupResults(extractCardNames(iParsed'))
            /\ iMerged' = <<mergeScryfallData(iParsed', iResults')>>
            /\ iStage' = "result"
    /\ UNCHANGED <<iText, iImported, parserVars, filterVars, appVars>>

\* handleConfirmImport(result.deck, filename), by the timer of processImport
\* or by the button
HandleConfirmImport ==
    /\ iStage = "result"
    /\ iImported' = <<handleConfirmImport(iMerged[1], "deck.txt")>>
    /\ iStage' = "imported"
    /\ UNCHANGED <<iText, iParsed, iResults, iMerged, parserVars, filterVars, appVars>>

NextImport ==
    \/ ProcessImport
    \/ HandleConfirmImport

SpecImport == InitImport /\ [][NextImport]_vars

-----------------------------------------------------------------------------
(* DeckImporter.parseDeckList *)

\* /1x\s*\/\/\s*COMMANDER\s*/i at position i of the text: the position after
\* the match, 0 when there is none
HeaderEnd(text, i) ==
    LET low == toLowerCase(text)
        a == i + 2 + RunLen(text, i + 2, IsSpace)
        b == a + 2 + RunLen(text, a + 2, IsSpace)
    IN  IF /\ startsWith(SubSeq(low, i, Len(low)), "1x")
           /\ startsWith(SubSeq(low, a, Len(low)), "//")
           /\ startsWith(SubSeq(low, b, Len(low)), "commander")
        THEN b + 9 + RunLen(text, b + 9, IsSpace)
        ELSE 0

\* text.replace(/1x\s*\/\/\s*COMMANDER\s*/i, '').trim()
RemoveHeader(text) ==
    LET at == {i \in 1..Len(text) : HeaderEnd(text, i) # 0}
    IN  IF at = {} THEN trim(text)
        ELSE trim(SubSeq(text, 1, Min(at) - 1)
                    \o SubSeq(text, HeaderEnd(text, Min(at)), Len(text)))

\* /\s*\*F\*\s*/ at position i: the position after the match, 0 for none
FoilEnd(text, i) ==
    LET a == i + RunLen(text, i, IsSpace)
    IN  IF startsWith(SubSeq(text, a, Len(text)), "*F*")
        THEN a + 3 + RunLen(text, a + 3, IsSpace)
        ELSE 0

\* cleanText.replace(/\s*\*F\*\s*/g, ' ')
RECURSIVE ReplaceFoil(_)
ReplaceFoil(text) ==
    LET at == {i \in 1..Len(text) : FoilEnd(text, i) # 0}
    IN  IF at = {} THEN text
        ELSE SubSeq(text, 1, Min(at) - 1) \o " "
                \o ReplaceFoil(SubSeq(text, FoilEnd(text, Min(at)), Len(text)))

IsNoParen(c) == c # "("

\* (?=\s+\d+|\s*$) at position e
Lookahead(text, e) ==
    \E w \in {RunLen(text, e, IsSpace)} :
        \/ e + w > Len(text)
        \/ w >= 1 /\ IsDigit(CharAt(text, e + w))

\* \s+(\d+)(?=\s+\d+|\s*$) after the ")" at position b, the set code
\* standing between a and b
TailNumber(text, a, b, c) ==
    IF c > b + 1 /\ RunLen(text, c, IsDigit) >= 1
                /\ Lookahead(text, c + RunLen(text, c, IsDigit))
    THEN <<[set |-> SubSeq(text, a + 1, b - 1),
            collectorNumber |-> SubSeq(text, c, c + RunLen(text, c, IsDigit) - 1),
            end |-> c + RunLen(text, c, IsDigit)]>>
    ELSE <<>>

\* \(([A-Z0-9]+)\) at position a, then the number
TailSet(text, a, b) ==
    IF b > a + 1 /\ b <= Len(text) /\ CharAt(text, b) = ")"
    THEN TailNumber(text, a, b, b + 1 + RunLen(text, b + 1, IsSpace))
    ELSE <<>>

\* \s+\(([A-Z0-9]+)\)\s+(\d+)(?=\s+\d+|\s*$) at position q: the set, the
\* number and the position after the number, <<>> when it does not match.
\* Each quantifier is followed by a character outside its class, and the
\* lookahead needs white space or the end after the number: one way to match.
CardTail(text, q) ==
    IF \E a \in {q + RunLen(text, q, IsSpace)} :
          a > q /\ a <= Len(text) /\ CharAt(text, a) = "("
    THEN TailSet(text, q + RunLen(text, q, IsSpace),
                 q + RunLen(text, q, IsSpace) + 1
                   + RunLen(text, q + RunLen(text, q, IsSpace) + 1, IsSetChar))
    ELSE <<>>

\* the ways to match \s+([^(]+?) at position q before a tail, w the white
\* space at q: [k, n] for k characters of white space and a name of n
NameCands(text, q, w) ==
    {kn \in (1..w) \X (1..(Len(text) - q)) :
        /\ q + kn[1] + kn[2] <= Len(text)
        /\ IsSpace(CharAt(text, q + kn[1] + kn[2]))
        /\ RunLen(text, q + kn[1], IsNoParen) >= kn[2]
        /\ CardTail(text, q + kn[1] + kn[2]) # <<>>}

\* the match for the quantity at p..q-1: \s+ is greedy and gives back one
\* character at a time, ([^(]+?) is lazy; the match is the first in that
\* order. <<>> when there is none.
cardPatternFrom(text, p, q, cands) ==
    IF cands = {} THEN <<>>
    ELSE LET k == Max({kn[1] : kn \in cands})
             n == Min({kn[2] : kn \in {c \in cands : c[1] = k}})
             tail == CardTail(text, q + k + n)[1]
         IN  <<[quantity |-> SubSeq(text, p, q - 1),
                name |-> SubSeq(text, q + k, q + k + n - 1),
                set |-> tail.set,
                collectorNumber |-> tail.collectorNumber,
                lastIndex |-> tail.end]>>

\* cardPattern matched at position p: (\d+) takes the digits from p
cardPatternAt(text, p) ==
    IF ~IsDigit(CharAt(text, p)) THEN <<>>
    ELSE cardPatternFrom(text, p, p + RunLen(text, p, IsDigit),
            NameCands(text, p + RunLen(text, p, IsDigit),
                      RunLen(text, p + RunLen(text, p, IsDigit), IsSpace)))

\* the leftmost position from lastIndex where cardPattern matches, 0 for none
RECURSIVE MatchPosition(_, _)
MatchPosition(text, p) ==
    IF p > Len(text) THEN 0
    ELSE IF cardPatternAt(text, p) # <<>> THEN p
    ELSE MatchPosition(text, p + 1)

\* cardPattern.exec(cleanText) with the search starting at lastIndex
cardPatternExec(text, lastIndex) ==
    IF MatchPosition(text, lastIndex) = 0 THEN <<>>
    ELSE cardPatternAt(text, MatchPosition(text, lastIndex))

UpperChar(c) ==
    IF \E u \in UpperSet : LowerOf[u] = c /\ u # c
    THEN CHOOSE u \in UpperSet : LowerOf[u] = c
    ELSE c

\* s.toUpperCase(), character by character
RECURSIVE toUpperCase(_)
toUpperCase(s) ==
    IF Len(s) = 0 THEN ""
    ELSE IF Len(s) = 1 THEN UpperChar(s)
    ELSE toUpperCase(SubSeq(s, 1, Len(s) \div 2))
            \o toUpperCase(SubSeq(s, Len(s) \div 2 + 1, Len(s)))

\* the card of lines 31-36 for a match
DeckListCard(match) ==
    [quantity |-> parseIntDigits(match.quantity),
     name |-> trim(match.name),
     set |-> toUpperCase(match.set),
     collectorNumber |-> trim(match.collectorNumber)]

\* lines 39-50 on cardMap, a Map kept as the sequence of its [key, value] in
\* insertion order
DeckListStore(cardMap, cardKey, card) ==
    IF HasOwn(cardMap, cardKey)
    THEN [cardMap EXCEPT ![OwnIndex(cardMap, cardKey)].value.quantity =
                            @ + card.quantity]
    ELSE Append(cardMap, [key |-> cardKey, value |-> card])

\* the while loop of lines 26-51: DeckListLoop runs exec, DeckListTake is
\* the body for its match
RECURSIVE DeckListLoop(_, _, _)
DeckListTake(text, match, cardMap) ==
    IF match = <<>> THEN cardMap
    ELSE DeckListLoop(text, match[1].lastIndex,
            DeckListStore(cardMap,
                toUpperCase(match[1].set) \o "-" \o trim(match[1].collectorNumber),
                DeckListCard(match[1])))

DeckListLoop(text, lastIndex, cardMap) ==
    DeckListTake(text, cardPatternExec(text, lastIndex), cardMap)

\* lines 54-56: the first card stored is the commander, null for none
DeckListOf(cardMap) ==
    [cards |-> ValuesOf(cardMap),
     commander |-> IF cardMap = <<>> THEN <<>> ELSE <<cardMap[1].value>>]

parseDeckList(text) ==
    DeckListOf(DeckListLoop(ReplaceFoil(RemoveHeader(text)), 1, <<>>))

-----------------------------------------------------------------------------
(* The deck list parser of DeckImporter as a machine: a text is pasted, then
   parsed *)

MaxDeckLines == 3

\* the lines of the pasted lists: a card, its printing and its quantity
DeckListEntries ==
    { [quantity |-> 1, name |-> "Sol Ring", set |-> "C21", collectorNumber |-> "263"],
      [quantity |-> 1, name |-> "Command Tower", set |-> "LTC", collectorNumber |-> "301"],
      [quantity |-> 2, name |-> "Opt", set |-> "M21", collectorNumber |-> "59"],
      [quantity |-> 4, name |-> "Sauron, the Dark Lord", set |-> "LTR", collectorNumber |-> "224"] }

DeckListSeqs == UNION { [1..n -> DeckListEntries] : n \in 1..MaxDeckLines }

\* "1 Sauron, the Dark Lord (LTR) 224"
QuantityFirst(e) ==
    ToString(e.quantity) \o " " \o e.name \o " (" \o e.set \o ") " \o e.collectorNumber

\* "Sauron, the Dark Lord (LTR) 224 1"
QuantityLast(e) ==
    e.name \o " (" \o e.set \o ") " \o e.collectorNumber \o " " \o ToString(e.quantity)

QuantityFirstText(es) == JoinLines([i \in 1..Len(es) |-> QuantityFirst(es[i])])
QuantityLastText(es) == JoinLines([i \in 1..Len(es) |-> QuantityLast(es[i])])

DeckListTexts ==
    {QuantityFirstText(es) : es \in DeckListSeqs}
        \cup {QuantityLastText(es) : es \in DeckListSeqs}
        \cup {"1x // COMMANDER\n1 Sol Ring (C21) 263 *F*\n1 Opt (M21) 59",
              "1 Sol Ring (C21) 263 *F* \n2 Sol Ring (C21) 263"}

NoDeckList == [cards |-> <<>>, commander |-> <<>>]

InitDeckList ==
    /\ pText \in DeckListTexts
    /\ pDeck = NoDeckList
    /\ pDone = FALSE
    /\ FilterIdle
    /\ AppIdle
    /\ ImportIdle

\* parseDeckList(deckText) in handleImport
ParseDeckList ==
    /\ ~pDone
    /\ pDeck' = parseDeckList(pText)
    /\ pDone' = TRUE
    /\ UNCHANGED <<pText, filterVars, appVars, importVars>>

NextDeckList == ParseDeckList

SpecDeckList == InitDeckList /\ [][NextDeckList]_vars

-----------------------------------------------------------------------------
(* Properties of filterCollectionByNeeds (specification SpecFilter) *)

\* the cards of the collection that are not in the deck and score above 0
Eligible ==
    {i \in 1..Len(fCollection) :
        /\ \A d \in 1..Len(fDeckCards) :
              toLowerCase(fCollection[i].name) # toLowerCase(fDeckCards[d].name)
        /\ scoreCard(fCollection[i], fNeeds) > 0}

Returned == {fOrder[k] : k \in 1..Len(fOrder)}

RoleAmount ==
    [needsRemoval |-> 12, needsCardDraw |-> 12, needsBoardWipes |-> 15,
     needsCounterspells |-> 15, needsProtection |-> 10, needsGraveyard |-> 10,
     needsTokens |-> 12, needsTutor |-> 15, needsLandFetch |-> 12]

\* C19: a role signal adds to a card either 0 or its one fixed amount,
\* however many of its phrases occur and however often: under a need that
\* raises that signal alone every card scores 0 or the amount, and the cards
\* returned are those that score the amount.
C19_RoleAddsOnce ==
    (fDone /\ ~fError) =>
        \A flag \in RoleFlags :
            fNeeds = RoleNeed(flag) =>
                /\ \A i \in 1..Len(fCollection) :
                      scoreCard(fCollection[i], fNeeds) \in {0, RoleAmount[flag]}
                /\ \A k \in 1..Len(fResult) :
                      fResult[k].relevanceScore = RoleAmount[flag]

\* C19 witness: card draw is needed and 'Draw a card. Draw a card.' is
\* returned with 12, beside a card with two other draw phrases
C19_Witness ==
    /\ fDone /\ ~fError
    /\ fNeeds = RoleNeed("needsCardDraw")
    /\ Len(fResult) = 2
    /\ fResult[1].oracleText = "Draw a card. Draw a card."
    /\ fResult[1].relevanceScore = 12
    /\ includes(toLowerCase(fResult[2].oracleText), "draw two")
    /\ includes(toLowerCase(fResult[2].oracleText), "draw three")

\* C20: the synergy contribution is 15 times the number of terms of
\* need.synergyOracleTerms that occur, ignoring case, in the card's oracle
\* text or in its name; a term that occurs in both counts once.
C20_SynergyPerTerm ==
    (fDone /\ ~fError /\ DOMAIN fNeeds = {"synergyOracleTerms"}) =>
        \A i \in 1..Len(fCollection) :
            LET terms == fNeeds.synergyOracleTerms
                hits == {t \in 1..Len(terms) :
                            \/ includes(toLowerCase(fCollection[i].oracleText),
                                        toLowerCase(terms[t]))
                            \/ includes(toLowerCase(fCollection[i].name),
                                        toLowerCase(terms[t]))}
            IN  /\ scoreCard(fCollection[i], fNeeds) = 15 * Cardinality(hits)
                /\ hits # {} =>
                      \E k \in 1..Len(fResult) :
                          /\ fOrder[k] = i
                          /\ fResult[k].relevanceScore = 15 * Cardinality(hits)

\* C20 witness: with the terms wall and defender, 'This creature is a Wall'
\* is returned with 15, and a card with both terms in text and name with 30
C20_Witness ==
    /\ fDone /\ ~fError
    /\ fNeeds = [synergyOracleTerms |-> <<"wall", "defender">>]
    /\ \E k \in 1..Len(fResult) :
          /\ fResult[k].oracleText = "This creature is a Wall"
          /\ fResult[k].relevanceScore = 15
    /\ \E k \in 1..Len(fResult) :
          /\ fResult[k].name = "Wall of Defenders"
          /\ fResult[k].relevanceScore = 30

\* a power written as a plain number
IsPlainNumber(s) ==
    Len(s) >= 1 /\ \A i \in 1..Len(s) : IsDigit(CharAt(s, i))

\* the card's power is a number >= minPower
PowerAtLeast(card, minPower) ==
    /\ Has(card, "power")
    /\ card.power # Null
    /\ IsPlainNumber(card.power)
    /\ parseIntDigits(card.power) >= minPower

\* C21: the big-creature bonus of 8 is added exactly when
\* need.wantBigCreatures is true, need.minPower is set (0 included) and the
\* card's power is a number >= minPower; a power that is not a plain number,
\* or an absent one, never gets it.
C21_BigCreatureBonus ==
    (fDone /\ ~fError /\ Has(fNeeds, "wantBigCreatures")) =>
        \A i \in 1..Len(fCollection) :
            scoreCard(fCollection[i], fNeeds) =
                IF /\ fNeeds.wantBigCreatures
                   /\ Has(fNeeds, "minPower")
                   /\ PowerAtLeast(fCollection[i], fNeeds.minPower)
                THEN 8 ELSE 0

\* C22: the curve correction adds at most 5 to a card: the bonus for a low
\* and the bonus for a high mana value never both apply, also when the note
\* holds phrases of both branches or the card has no mana value.
C22_CurveAtMostFive ==
    (fDone /\ ~fError /\ Has(fNeeds, "cmcCurveNote")) =>
        /\ \A i \in 1..Len(fCollection) :
              scoreCard(fCollection[i], fNeeds) \in {0, 5}
        /\ \A k \in 1..Len(fResult) : fResult[k].relevanceScore = 5

\* C22 witness: the note names both problems; a card without a mana value
\* and a card of mana value 6 are returned with 5 each
C22_Witness ==
    /\ fDone /\ ~fError
    /\ Has(fNeeds, "cmcCurveNote")
    /\ includes(toLowerCase(fNeeds.cmcCurveNote), "top-heavy")
    /\ includes(toLowerCase(fNeeds.cmcCurveNote), "too low")
    /\ Len(fResult) = 2
    /\ ~Has(fResult[1], "cmc") /\ fResult[1].relevanceScore = 5
    /\ Has(fResult[2], "cmc") /\ fResult[2].cmc = 6 /\ fResult[2].relevanceScore = 5

\* C2: the result is ordered by non-increasing relevanceScore.
C2_NonIncreasingScores ==
    fDone =>
        \A k \in 1..(Len(fResult) - 1) :
            fResult[k].relevanceScore >= fResult[k + 1].relevanceScore

\* C2 witness: a card is returned ahead of a lower-scored one that came
\* before it in the collection
C2_Witness ==
    /\ fDone
    /\ \E k \in 1..(Len(fResult) - 1) :
          /\ fResult[k].relevanceScore > fResult[k + 1].relevanceScore
          /\ fOrder[k] > fOrder[k + 1]

\* C3: no returned card has, ignoring letter case, the name of an entry of
\* deckCards, whatever score the card would get.
C3_NoDeckCardReturned ==
    fDone =>
        \A k \in 1..Len(fResult) : \A d \in 1..Len(fDeckCards) :
            toLowerCase(fResult[k].name) # toLowerCase(fDeckCards[d].name)

\* C3 witness: a card of the collection scores above 0 and is left out because
\* the deck holds its name in another letter case
C3_Witness ==
    /\ fDone
    /\ \E i \in 1..Len(fCollection) : \E d \in 1..Len(fDeckCards) :
          /\ fCollection[i].name # fDeckCards[d].name
          /\ toLowerCase(fCollection[i].name) = toLowerCase(fDeckCards[d].name)
          /\ scoreCard(fCollection[i], fNeeds) > 0
          /\ \A k \in 1..Len(fOrder) : fOrder[k] # i

NeedFlags ==
    {"needsRemoval", "needsRamp", "needsCardDraw", "needsBoardWipes",
     "needsCounterspells", "needsProtection", "needsGraveyard", "needsTokens",
     "needsTutor", "needsLandFetch", "wantBigCreatures"}
NeedLists ==
    {"synergyOracleTerms", "wantedKeywords", "wantedCreatureTypes",
     "additionalOracleTerms"}
CurvePhrases == {"top-heavy", "expensive", "too low", "needs threats"}

\* every flag of the record is false and every list is empty (or absent)
IsFlagless(needs) ==
    /\ \A f \in NeedFlags \cap DOMAIN needs : needs[f] = FALSE
    /\ \A f \in NeedLists \cap DOMAIN needs : needs[f] = <<>>

\* the curve note names a curve problem
NamesCurveProblem(needs) ==
    /\ "cmcCurveNote" \in DOMAIN needs
    /\ \E phrase \in CurvePhrases : includes(toLowerCase(needs.cmcCurveNote), phrase)

\* C12 as stated: the call returns the empty list, and raises no error, when
\* the collection is empty and also when every flag of the need record is
\* false and every list empty, for any collection.
C12_NeutralNeedYieldsEmpty ==
    (fDone /\ (fCollection = <<>> \/ IsFlagless(fNeeds))) =>
        (fResult = <<>> /\ ~fError)

\* C12 amended: the same, for a need record whose curve note, too, names no
\* curve problem (none of top-heavy, expensive, too low, needs threats).
C12_NeutralNeedYieldsEmptyAmended ==
    (fDone /\ (\/ fCollection = <<>>
               \/ IsFlagless(fNeeds) /\ ~NamesCurveProblem(fNeeds))) =>
        (fResult = <<>> /\ ~fError)

\* C12 witness: a collection of two cards, a need record with its flags
\* false, its lists empty and an empty curve note, and nothing returned
C12_Witness ==
    /\ fDone
    /\ Len(fCollection) = 2
    /\ fNeeds # <<>>
    /\ DOMAIN fNeeds \cap NeedFlags # {}
    /\ IsFlagless(fNeeds)
    /\ ~NamesCurveProblem(fNeeds)
    /\ fResult = <<>>

\* the need record with each absent field set to its neutral default
WithDefaults(needs) ==
    [f \in NeedFlags \cup NeedLists \cup {"minPower", "cmcCurveNote"} |->
        IF f \in DOMAIN needs THEN needs[f]
        ELSE IF f \in NeedFlags THEN FALSE
        ELSE IF f \in NeedLists THEN <<>>
        ELSE IF f = "minPower" THEN 0
        ELSE ""]

\* C13: with any subset of the fields of the need record absent the call
\* raises no error, and an absent field adds to every card's score what the
\* field's neutral default adds, which is 0: scores and result are those of
\* the record that spells the defaults out.
C13_AbsentFieldIsNeutral ==
    fDone =>
        /\ ~fError
        /\ \A i \in 1..Len(fCollection) :
              scoreCard(fCollection[i], fNeeds)
                  = scoreCard(fCollection[i], WithDefaults(fNeeds))
        /\ fResult = filterCollectionByNeeds(fCollection, WithDefaults(fNeeds), fDeckCards)

\* C13 witness: big creatures are wanted but minPower, every list and the
\* curve note are absent, and a creature is returned for another signal
C13_Witness ==
    /\ fDone
    /\ Truthy(fNeeds, "wantBigCreatures")
    /\ DOMAIN fNeeds \cap (NeedLists \cup {"minPower", "cmcCurveNote"}) = {}
    /\ \E k \in 1..Len(fResult) :
          /\ parseInt(fResult[k].power) # <<>>
          /\ fResult[k].relevanceScore = 12

-----------------------------------------------------------------------------
(* Properties of the application (specification Spec) *)

\* the colour identity Scryfall gives the card of an entry
ColorIdentityOf(card) ==
    (CHOOSE data \in ScryfallCards : data.id = card.scryfallId).color_identity

\* the copies of a card that the decks hold: every entry of every deck
UsedInDecks(card, deckValues) ==
    LET RECURSIVE inCards(_)
        inCards(cards) ==
            IF cards = <<>> THEN 0
            ELSE (IF cards[1].scryfallId = card.scryfallId THEN cards[1].quantity ELSE 0)
                 + inCards(Tail(cards))
        RECURSIVE total(_)
        total(n) == IF n = 0 THEN 0 ELSE total(n - 1) + inCards(deckValues[n].cards)
    IN  total(Len(deckValues))

\* C4: whatever adds, saves, reloads and restored backups came before, the
\* legal cards of an analysis hold no card with a colour outside the colour
\* identity of the deck's commanders, and every available card without a
\* colour identity is legal.
C4_LegalCardsWithinIdentity ==
    analysis # <<>> =>
        LET a == analysis[1]
        IN  /\ \A k \in 1..Len(a.legalCards) :
                  \A c \in 1..Len(ColorIdentityOf(a.legalCards[k])) :
                      ColorIdentityOf(a.legalCards[k])[c] \in a.colorIdentity
            /\ \A k \in 1..Len(a.availableCards) :
                  ColorIdentityOf(a.availableCards[k]) = <<>> =>
                      \E j \in 1..Len(a.legalCards) :
                          a.legalCards[j] = a.availableCards[k]

\* C5: the available quantity of a collection entry, as the collection view
\* and the analysis compute it, is the owned quantity minus the quantities of
\* all the deck entries of that card, several entries in one deck included.
C5_AvailableIsOwnedMinusUsed ==
    LET deckValues == Stringify(heap, decks)
        view == collectionWithAvailability(CardsOf(heap, collection), deckValues)
    IN  /\ \A i \in 1..Len(view) :
              view[i].available = view[i].quantity - UsedInDecks(view[i], deckValues)
        /\ analysis # <<>> =>
              \A k \in 1..Len(analysis[1].availableCards) :
                  LET card == analysis[1].availableCards[k]
                  IN  card.available = card.quantity - UsedInDecks(card, deckValues)

\* C6: getAvailableCards returns no entry of which the decks hold as many
\* copies as are owned, or more.
C6_NoUsedUpCardOffered ==
    analysis # <<>> =>
        \A k \in 1..Len(analysis[1].availableCards) :
            LET card == analysis[1].availableCards[k]
            IN  card.quantity - UsedInDecks(card, Stringify(heap, decks)) > 0

-----------------------------------------------------------------------------
(* What the parser's text says, line by line, for the properties below *)

IsMarker(line) == startsWith(line, "//")

\* the section a line of the text belongs to: the one named by the last
\* marker above it, "main" when there is none
SectionAt(lines, i) ==
    LET ms == {j \in 1..(i - 1) : IsMarker(lines[j])}
    IN  IF ms = {} THEN "main"
        ELSE IF toLowerCase(trim(SubSeq(lines[Max(ms)], 3, Len(lines[Max(ms)])))) = "commander"
        THEN "commander" ELSE "main"

\* the lines of the text that are cards of a section with a given name key
CardLinesOf(lines, section, key) ==
    {i \in 1..Len(lines) :
        /\ ~IsMarker(lines[i])
        /\ parseCardLine(lines[i]) # <<>>
        /\ SectionAt(lines, i) = section
        /\ toLowerCase(parseCardLine(lines[i])[1].name) = key}

RECURSIVE SumLineQuantity(_, _)
SumLineQuantity(lines, I) ==
    IF I = {} THEN 0
    ELSE LET i == CHOOSE j \in I : TRUE
         IN  parseCardLine(lines[i])[1].quantity + SumLineQuantity(lines, I \ {i})

RECURSIVE SumQuantity(_)
SumQuantity(entries) ==
    IF entries = <<>> THEN 0 ELSE Head(entries).quantity + SumQuantity(Tail(entries))

SectionList(deck, section) == IF section = "commander" THEN deck.commander ELSE deck.cards

EntriesOf(deck, section, key) ==
    LET list == SectionList(deck, section)
    IN  {i \in 1..Len(list) : toLowerCase(list[i].name) = key}

NameKeys(lines) ==
    {toLowerCase(parseCardLine(lines[i])[1].name) :
        i \in {j \in 1..Len(lines) : ~IsMarker(lines[j]) /\ parseCardLine(lines[j]) # <<>>}}

Sections == {"commander", "main"}

C9_UniqueNamesInDeck ==
    pDone =>
        LET all == pDeck.commander \o pDeck.cards
        IN  \A i, j \in 1..Len(all) :
                toLowerCase(trim(all[i].name)) = toLowerCase(trim(all[j].name)) => i = j

\* C10: every non-empty line that is no section marker either parses as a
\* card and adds its quantity to exactly one entry of its section, or is
\* appended exactly once to errors and adds to no entry.
C10_EveryLineAccounted ==
    pDone =>
        LET lines == TxtLines(pText)
            bad == SelectSeq(lines, LAMBDA l : ~IsMarker(l) /\ parseCardLine(l) = <<>>)
        IN  /\ pDeck.errors = [i \in 1..Len(bad) |->
                                  [line |-> bad[i], reason |-> "Could not parse format"]]
            /\ \A section \in Sections : \A key \in NameKeys(lines) :
                  LET from == CardLinesOf(lines, section, key)
                      into == EntriesOf(pDeck, section, key)
                  IN  /\ from # {} => Cardinality(into) = 1
                      /\ from = {} => into = {}
                      /\ \A e \in into :
                            SectionList(pDeck, section)[e].quantity = SumLineQuantity(lines, from)

-----------------------------------------------------------------------------
(* Properties of ManaboxParser.parse (specification SpecParse) *)

\* the line parse inspects, and whether it takes the text for a table
HeaderLine(text) == trim(split(text)[1])
IsTabular(text) == IsCSV(HeaderLine(text))
HasNameColumn(text) ==
    \E i \in 1..Len(CsvHeaders(HeaderLine(text))) :
        CsvHeaders(HeaderLine(text))[i] \in {"name", "card name"}

\* C11 as stated: when the tabular dialect is detected and the header row has
\* no name column, parse returns empty commander and cards lists and an
\* errors list whose one entry is for the header line.
C11_NoNameColumnFails ==
    (pDone /\ IsTabular(pText) /\ ~HasNameColumn(pText)) =>
        /\ pDeck.commander = <<>>
        /\ pDeck.cards = <<>>
        /\ Len(pDeck.errors) = 1
        /\ pDeck.errors[1].line = HeaderLine(pText)

\* C11 amended: the one entry of errors is for the header line when the text
\* has a further non-empty line; for a text of the header alone it is the
\* entry "CSV file is empty", which names no line.
C11_NoNameColumnFailsAmended ==
    (pDone /\ IsTabular(pText) /\ ~HasNameColumn(pText)) =>
        /\ pDeck.commander = <<>>
        /\ pDeck.cards = <<>>
        /\ Len(pDeck.errors) = 1
        /\ IF Len(TxtLines(pText)) >= 2
           THEN /\ pDeck.errors[1].line = HeaderLine(pText)
                /\ startsWith(pDeck.errors[1].reason, "Could not find \"Name\" column")
           ELSE pDeck.errors[1] = [line |-> "", reason |-> "CSV file is empty"]

\* C11 witness: a header without a name column above a row that names a card
C11_Witness ==
    /\ pDone
    /\ pText = "Binder Name,Quantity\nSol Ring,2,C21,263"
    /\ pDeck.cards = <<>>
    /\ Len(pDeck.errors) = 1
    /\ pDeck.errors[1].line = "Binder Name,Quantity"

\* the entries of the data rows that have a name, one for each row
RECURSIVE NamedRows(_, _)
NamedRows(rows, headers) ==
    IF rows = <<>> THEN <<>>
    ELSE (IF ColTrim(parseCSVLine(Head(rows)), nameIdx(headers)) \in {Undefined, ""}
          THEN <<>>
          ELSE <<CsvCard(parseCSVLine(Head(rows)), headers)>>)
            \o NamedRows(Tail(rows), headers)

\* C23: in the tabular dialect every data row that has a name becomes its
\* own entry with the quantity of its row: rows are not merged, and rows
\* without a name give no entry.
C23_RowsNotMerged ==
    (pDone /\ IsTabular(pText) /\ HasNameColumn(pText) /\ Len(TxtLines(pText)) >= 2) =>
        pDeck.cards = NamedRows(Tail(TxtLines(pText)), CsvHeaders(HeaderLine(pText)))

\* C24: parse chooses the dialect from the first non-empty line of the text:
\* a comma and the token name or binder (any case) make it a table, also
\* when blank lines come before that line; otherwise it is parsed line by
\* line.
C24_DialectFromFirstNonEmptyLine ==
    pDone =>
        pDeck = IF TxtLines(pText) # <<>> /\ IsCSV(TxtLines(pText)[1])
                THEN parseCSV(pText)
                ELSE parseTXT(pText)

\* C25: every entry in the commander and cards lists returned by the parser
\* has quantity >= 1, in either dialect, also for lines or rows whose written
\* quantity is 0.
C25_QuantityAtLeastOne ==
    pDone =>
        \A i \in 1..Len(pDeck.commander \o pDeck.cards) :
            (pDeck.commander \o pDeck.cards)[i].quantity >= 1

-----------------------------------------------------------------------------
(* Properties of handleAddToCollection (specification SpecAdd) *)

\* the quantities of the cards among refs, read in heap h, whose scryfallId is id
RECURSIVE AddedQuantity(_, _, _)
AddedQuantity(h, refs, id) ==
    IF refs = <<>> THEN 0
    ELSE (IF ScryfallIdOf(h[refs[1]]) = id THEN h[refs[1]].quantity ELSE 0)
         + AddedQuantity(h, Tail(refs), id)

OneEntryPerCard(cards) ==
    \A i, j \in 1..Len(cards) : cards[i].scryfallId = cards[j].scryfallId => i = j

\* what C15 says of a call that adds the cards selected: the entries that were
\* there stay in place and each is raised by the quantities added under its
\* scryfallId, one entry is appended per scryfallId that was not there, and
\* no two entries share a scryfallId
AddedByQuantity(selected) ==
    LET old == CardsOf(heap, collection)
        new == CardsOf(heap', collection')
        oldIds == {old[i].scryfallId : i \in 1..Len(old)}
        newIds == {ScryfallIdOf(heap[selected[k]]) : k \in 1..Len(selected)} \ oldIds
    IN  /\ OneEntryPerCard(new)
        /\ Len(new) = Len(old) + Cardinality(newIds)
        /\ \A i \in 1..Len(old) :
              /\ new[i].scryfallId = old[i].scryfallId
              /\ new[i].quantity =
                    old[i].quantity + AddedQuantity(heap, selected, old[i].scryfallId)

\* C15: after any sequence of handleAddToCollection calls no two entries of
\* the collection share a scryfallId; a call that adds a card whose
\* scryfallId is present raises that entry's quantity by the quantity added
\* and appends no entry.
C15_OneEntryPerCard ==
    [][/\ OneEntryPerCard(CardsOf(heap, collection))
       /\ currentDeck # <<>> =>
             \A selected \in Selections(heap, currentDeck[1].cards) :
                 AddToCollection(selected, MaxAddQuantity) => AddedByQuantity(selected)]_vars

\* C27: handleAddToCollection changes only the collection and lastAction:
\* every deck's cards list and every deck card's quantity are after an add
\* what they were before it, also when a deck card is added a second time.
C27_AddLeavesDecksAlone ==
    [][AddSelectedToCollection =>
          /\ Stringify(heap', decks') = Stringify(heap, decks)
          /\ Stringify(heap', currentDeck') = Stringify(heap, currentDeck)]_vars

-----------------------------------------------------------------------------
(* Properties of the import (specification SpecImport) *)

\* the found records that carry the name of an entry, ignoring case
RecordsFor(entry, found) ==
    {i \in 1..Len(found) : toLowerCase(found[i].name) = toLowerCase(entry.name)}

\* a merged entry is the parsed entry, enriched with the record of its name
\* or flagged notFound
IsMergeOf(merged, entry, found) ==
    /\ merged.name = entry.name
    /\ merged.quantity = entry.quantity
    /\ merged.set = entry.set
    /\ merged.collectorNumber = entry.collectorNumber
    /\ IF RecordsFor(entry, found) = {}
       THEN /\ Has(merged, "notFound") /\ merged.notFound = TRUE
            /\ ~Has(merged, "scryfallId")
       ELSE /\ ~Has(merged, "notFound")
            /\ \E i \in RecordsFor(entry, found) :
                  /\ merged.scryfallId = found[i].id
                  /\ merged.type = found[i].type_line
                  /\ merged.oracleText = found[i].oracle_text
                  /\ merged.colorIdentity = found[i].color_identity

IsListMergeOf(merged, entries, found) ==
    /\ Len(merged) = Len(entries)
    /\ \A i \in 1..Len(entries) : IsMergeOf(merged[i], entries[i], found)

NotFoundIn(cards) == {i \in 1..Len(cards) : Has(cards[i], "notFound")}

\* C16: mergeScryfallData keeps the number, the order and the quantities of
\* the commander and card entries; an entry is enriched with the found record
\* of its lower-cased name and flagged notFound: true when there is none;
\* handleConfirmImport hands on the entries that are not flagged, in order,
\* and the merged result still lists the flagged ones.
C16_MergeKeepsEntries ==
    (iStage \in {"result", "imported"}) =>
        /\ IsListMergeOf(iMerged[1].commander, iParsed.commander, iResults.found)
        /\ IsListMergeOf(iMerged[1].cards, iParsed.cards, iResults.found)
        /\ iStage = "imported" =>
              LET all == iMerged[1].commander \o iMerged[1].cards
                  kept == SelectSeq([i \in 1..Len(all) |-> i],
                                    LAMBDA i : i \notin NotFoundIn(all))
              IN  /\ NotFoundIn(iImported[1].cards) = {}
                  /\ iImported[1].cards = [k \in 1..Len(kept) |-> all[kept[k]]]

\* C16 witness: a deck is imported of which the lookup found one card and
\* answered another under a different name, so that its entry is flagged
C16_Witness ==
    /\ iStage = "imported"
    /\ Len(iImported[1].cards) >= 1
    /\ iResults.notFound = <<>>
    /\ NotFoundIn(iMerged[1].commander \o iMerged[1].cards) # {}

-----------------------------------------------------------------------------
(* Properties of DeckImporter.parseDeckList (specification SpecDeckList) *)

\* lists whose lines are different cards
DistinctLines(es) ==
    \A i, j \in 1..Len(es) : es[i] = es[j] => i = j

\* C17: a text of quantity-last lines "Name (SET) 123 1" of different cards
\* yields one entry per line with that line's name, set code, collector
\* number and trailing quantity, the same entries as the quantity-first form
\* of the same lines.
C17_QuantityLastAccepted ==
    pDone =>
        \A es \in DeckListSeqs :
            (DistinctLines(es) /\ pText = QuantityLastText(es)) =>
                /\ pDeck.cards = es
                /\ pDeck = parseDeckList(QuantityFirstText(es))

-----------------------------------------------------------------------------
(* Properties of handleUndo (specification SpecUndo) *)

\* the (scryfallId, quantity) of the entries of a collection
Holdings(cards) ==
    [i \in 1..Len(cards) |->
        [scryfallId |-> ScryfallIdOf(cards[i]), quantity |-> cards[i].quantity]]

\* The collection as it was before the add that lastAction records: empty
\* when previousCollection is, else what the effect on [collection] saved
\* before the add, which the save after the add moved to
\* mtg_collection_backup_old.
BeforeLastAdd ==
    IF lastAction[1].previousCollection = <<>> THEN <<>>
    ELSE Holdings(storage.mtg_collection_backup_old[1])

\* C26: after handleAddToCollection followed by a confirmed handleUndo the
\* collection has the entries and quantities it had before the add, also
\* for cards that were in the collection already; lastAction is then empty.
C26_UndoRestoresCollection ==
    [][HandleUndo =>
          /\ lastAction' = <<>>
          /\ Holdings(CardsOf(heap', collection')) = BeforeLastAdd]_vars

-----------------------------------------------------------------------------
(* Properties of the stored data (specification SpecStore) *)

DeckIds(ds) == {ds[i].id : i \in 1..Len(ds)}
HoldingSet(cards) == {Holdings(cards)[i] : i \in 1..Len(cards)}

\* C28: loading the app again from storage gives the set of deck ids and the
\* (scryfallId, quantity) pairs of the collection that were in memory before:
\* a deleted deck or a cleared collection does not come back, also when the
\* deletion left the list empty.
C28_ReloadKeepsData ==
    [][Reload =>
          /\ DeckIds(decks') = DeckIds(decks)
          /\ HoldingSet(CardsOf(heap', collection')) =
                HoldingSet(CardsOf(heap, collection))]_vars

-----------------------------------------------------------------------------
(* Properties of the saved collection and the scorer (specification Spec) *)

\* the fields of a collection entry the legality filter and the scorer read
ScorerFields == {"colorIdentity", "oracleText", "keywords", "power"}

\* the value of a field of a card, empty when the card has no such field
FieldOf(card, f) == IF Has(card, f) THEN <<card[f]>> ELSE <<>>

\* the relevanceScore filterCollectionByNeeds gives the card with this id,
\* none when the card is not returned
RelevanceScores(cards, needs, deckCards) ==
    LET result == filterCollectionByNeeds(cards, needs, deckCards)
    IN  {<<result[k].scryfallId, result[k].relevanceScore>> : k \in 1..Len(result)}

\* C29: a reload keeps, for every collection entry, the fields colorIdentity,
\* oracleText, keywords and power, and for the same need and the same deck
\* filterCollectionByNeeds gives each card the same relevanceScore after the
\* reload as before it.
C29_ReloadKeepsScores ==
    [][Reload =>
          LET before == CardsOf(heap, collection)
              after == CardsOf(heap', collection')
              deckValues == Stringify(heap, decks)
          IN  /\ Len(after) = Len(before)
              /\ \A i \in 1..Len(before) : \A f \in ScorerFields :
                    FieldOf(after[i], f) = FieldOf(before[i], f)
              /\ \A needs \in AnalysisNeeds : \A d \in 1..Len(deckValues) :
                    RelevanceScores(after, needs, deckValues[d].cards) =
                        RelevanceScores(before, needs, deckValues[d].cards)]_vars

-----------------------------------------------------------------------------
(* Properties of the deck list (specification SpecDecks) *)

\* C30: currentDeck is null or a deck whose id is the id of a deck in decks
\* with the same cards list.
C30_CurrentDeckInDecks ==
    currentDeck # <<>> =>
        \E i \in 1..Len(decks) :
            /\ decks[i].id = currentDeck[1].id
            /\ CardsOf(heap, decks[i].cards) = CardsOf(heap, currentDeck[1].cards)

=============================================================================
